---- MODULE Spec2Model ----
(***************************************************************************)
(* Observatory orchestration layer of pyscope                              *)
(* (src/pyscope/observatory/observatory.py): bulk connect / disconnect,    *)
(* the shutdown safing sequence, slew_to_coordinates, the background       *)
(* threads (safety monitor, observing conditions, derotation), recenter,   *)
(* the calibration sequences take_flats / take_darks, the cooler and site  *)
(* settings, the frame type of saved images and the filter focus offsets.  *)
(*                                                                         *)
(* Device drivers are external.  A device access is an input of the model: *)
(* a write of Connected may silently not take effect (the code reads the   *)
(* flag back and logs "failed to connect"), and a method call or property  *)
(* read may raise (the code wraps the shutdown commands in try/except).    *)
(***************************************************************************)
EXTENDS Integers, Sequences, FiniteSets, TLC

VARIABLES
    present,                \* which optional device handles are not None
    safety_monitor,         \* self._safety_monitor: None or a list of monitors
    switch,                 \* self._switch: None or a list of switches
    connected,              \* the Connected flag of every device
    capability,             \* what the devices answer to the capability and state queries
    call,                   \* the last completed foreground call and what it did
    safety_monitor_event,   \* self._safety_monitor_event: None, or an Event clear/set
    safety_monitor_thread,  \* self._safety_monitor_thread: None (0) or a worker
    workers,                \* every safety-monitor worker thread created so far
    caller,                 \* the foreground's position inside a blocking call
    last_poll,              \* the last poll a safety-monitor worker made
    observing_conditions_event,   \* self._observing_conditions_event
    observing_conditions_thread,  \* self._observing_conditions_thread: None (0) or a worker
    refreshers,             \* every observing-conditions worker thread created so far
    cooler_setpoint,        \* self._cooler_setpoint: << >> (None) or <<value>>
    cooler_tolerance,       \* self._cooler_tolerance: << >> (None) or <<value>>
    SetCCDTemperature,      \* the setpoint last written to the camera, likewise
    elevation,              \* self._elevation: << >> (None) or <<number>>
    site_min_altitude,      \* self._min_altitude, likewise
    config,                 \* the entries of self._config the setters write
    last_camera_shutter_status,  \* self._last_camera_shutter_status
    filter_wheel_Position,  \* the Position last written to the filter wheel
    focuser_Position,       \* where the focuser stands
    current_focus_offset    \* self._current_focus_offset

vars == <<present, safety_monitor, switch, connected, capability, call,
          safety_monitor_event, safety_monitor_thread, workers, caller, last_poll,
          observing_conditions_event, observing_conditions_thread, refreshers,
          cooler_setpoint, cooler_tolerance, SetCCDTemperature,
          elevation, site_min_altitude, config, last_camera_shutter_status,
          filter_wheel_Position, focuser_Position, current_focus_offset>>

threadVars == <<safety_monitor_event, safety_monitor_thread, workers, caller, last_poll>>

observingVars == <<observing_conditions_event, observing_conditions_thread, refreshers>>

coolerVars == <<cooler_setpoint, cooler_tolerance, SetCCDTemperature>>

siteVars == <<elevation, site_min_altitude, config>>

focusVars == <<filter_wheel_Position, focuser_Position, current_focus_offset>>

otherVars == <<siteVars, last_camera_shutter_status, focusVars>>

(***************************************************************************)
(* Bounds of the model.                                                    *)
(***************************************************************************)
MaxMonitors == 2    \* longest safety-monitor list
MaxSwitches == 1    \* longest switch list
MaxStarts == 2      \* safety-monitor workers created in one run

(***************************************************************************)
(* Devices.  A device is <<kind, index>>; the index is 0 except for the    *)
(* members of the safety-monitor and switch lists.                         *)
(***************************************************************************)
OptionalKinds ==
    {"cover_calibrator", "dome", "filter_wheel", "focuser",
     "observing_conditions", "rotator"}

AllDevices ==
    {<<"camera", 0>>, <<"telescope", 0>>}
        \cup {<<k, 0>> : k \in OptionalKinds}
        \cup {<<"safety_monitor", i>> : i \in 1..MaxMonitors}
        \cup {<<"switch", i>> : i \in 1..MaxSwitches}

\* A list attribute that may be None: [none |-> TRUE] or a list of n devices.
DeviceLists(max) == {[none |-> TRUE, n |-> 0]} \cup {[none |-> FALSE, n |-> k] : k \in 0..max}

Optional(kind) == IF present[kind] THEN << <<kind, 0>> >> ELSE << >>

ListOf(kind, lst) == IF lst.none THEN << >> ELSE [i \in 1..lst.n |-> <<kind, i>>]

\* The devices connect_all / disconnect_all write, in the order of the code.
DeviceOrder_telescope_first ==
    << <<"telescope", 0>>, <<"camera", 0>> >>
        \o Optional("cover_calibrator") \o Optional("dome")
        \o Optional("filter_wheel") \o Optional("focuser")
        \o Optional("observing_conditions") \o Optional("rotator")
        \o ListOf("safety_monitor", safety_monitor)
        \o ListOf("switch", switch)

DeviceOrder ==
    << <<"camera", 0>> >>
        \o Optional("cover_calibrator") \o Optional("dome")
        \o Optional("filter_wheel") \o Optional("focuser")
        \o Optional("observing_conditions") \o Optional("rotator")
        \o ListOf("safety_monitor", safety_monitor)
        \o ListOf("switch", switch)
        \o << <<"telescope", 0>> >>

\* The installations considered: of the optional devices at most one is
\* missing, or none is installed.
Installations ==
    {p \in [OptionalKinds -> BOOLEAN] :
        \/ Cardinality({k \in OptionalKinds : ~p[k]}) <= 1
        \/ \A k \in OptionalKinds : ~p[k]}

\* A number that may be None: << >> is None and <<v>> the number v.
None == << >>

Some(v) == <<v>>

(***************************************************************************)
(* Python values the setters handle.  A float is kept in hundredths, an    *)
(* int in units; nan is the float that compares False with everything.     *)
(* A string is the sequence of its characters.                             *)
(***************************************************************************)
PyNone == [type |-> "None", v |-> 0]

PyEmptyString == [type |-> "str", v |-> 0]

PyNaN == [type |-> "nan", v |-> 0]

PyFloat(hundredths) == [type |-> "float", v |-> hundredths]

PyInt(units) == [type |-> "int", v |-> units]

\* max(a, b) and min(a, b) of a float a and an int literal b, as Python
\* computes them: the first argument unless the second compares greater
\* (smaller), and no comparison with nan is True.
PyMax(a, b) == IF a.type # "nan" /\ b.v * 100 > a.v THEN b ELSE a

PyMin(a, b) == IF a.type # "nan" /\ b.v * 100 < a.v THEN b ELSE a

Digit(d) ==
    CASE d = 0 -> "0" [] d = 1 -> "1" [] d = 2 -> "2" [] d = 3 -> "3" [] d = 4 -> "4"
      [] d = 5 -> "5" [] d = 6 -> "6" [] d = 7 -> "7" [] d = 8 -> "8" [] d = 9 -> "9"

RECURSIVE Digits(_)
Digits(n) == IF n < 10 THEN <<Digit(n)>> ELSE Digits(n \div 10) \o <<Digit(n % 10)>>

\* str() of an int, of a float given in hundredths, and of a stored number.
StrInt(v) == IF v < 0 THEN <<"-">> \o Digits(-v) ELSE Digits(v)

StrFloat(h) ==
    LET a == IF h < 0 THEN -h ELSE h
        f == a % 100
    IN (IF h < 0 THEN <<"-">> ELSE << >>) \o Digits(a \div 100) \o <<".">>
       \o (IF f % 10 = 0 THEN <<Digit(f \div 10)>>
           ELSE <<Digit(f \div 10), Digit(f % 10)>>)

str(x) ==
    CASE x.type = "int" -> StrInt(x.v)
      [] x.type = "float" -> StrFloat(x.v)
      [] x.type = "nan" -> <<"n", "a", "n">>

\* The entry of the configuration mirror for a stored field.
mirror(stored) == IF stored = None THEN << >> ELSE str(stored[1])

\* Where the focuser stands before the first move.
FocuserStart == 5

\* The observatory as constructed with elevation 0 and the default
\* min_altitude 10, both passed through their setters by _read_out_kwargs.  The
\* filter wheel is at its first filter and no focus offset is applied.
InitOther ==
    /\ last_camera_shutter_status = "None"
    /\ filter_wheel_Position = 0
    /\ focuser_Position = FocuserStart
    /\ current_focus_offset = PyInt(0)
    /\ elevation = Some(PyFloat(0))
    /\ site_min_altitude = Some(PyFloat(1000))
    /\ config = [elevation |-> str(PyFloat(0)), min_altitude |-> str(PyFloat(1000)),
                 cooler_setpoint |-> IF cooler_setpoint = None THEN << >>
                                     ELSE StrFloat(cooler_setpoint[1]),
                 cooler_tolerance |-> IF cooler_tolerance = None THEN << >>
                                      ELSE StrFloat(cooler_tolerance[1])]

\* No thread exists, the foreground is in no call and no cooler setting has
\* been made.
InitThreads ==
    /\ safety_monitor_event = "None"
    /\ safety_monitor_thread = 0
    /\ workers = << >>
    /\ caller = "idle"
    /\ last_poll = [worker |-> 0]
    /\ observing_conditions_event = "None"
    /\ observing_conditions_thread = 0
    /\ refreshers = << >>
    /\ cooler_setpoint = << >>
    /\ cooler_tolerance = << >>
    /\ SetCCDTemperature = << >>
    /\ InitOther

PresentDevices == {DeviceOrder[i] : i \in 1..Len(DeviceOrder)}

Range(s) == {s[i] : i \in 1..Len(s)}

(***************************************************************************)
(* connect_all / disconnect_all.  SetAll writes Connected = value to the   *)
(* devices of order one after the other; the write to a device of stuck    *)
(* does not take effect.  After each write the flag is read back and a     *)
(* warning is logged when it is not the value written.  Nothing in the     *)
(* sequence stops it early, and the call returns True.                     *)
(***************************************************************************)
RECURSIVE SetAll(_, _, _, _, _)
SetAll(order, i, value, stuck, acc) ==
    IF i > Len(order) THEN [acc EXCEPT !.result = "True"]
    ELSE LET d == order[i]
             flag == IF d \in stuck THEN acc.connected[d] ELSE value
         IN SetAll(order, i + 1, value, stuck,
                [acc EXCEPT !.connected[d] = flag,
                            !.writes = Append(@, d),
                            !.warned = IF flag # value THEN @ \cup {d} ELSE @])

\* The same sequence, given up at the first device whose flag reads back wrong.
RECURSIVE SetAllAbort(_, _, _, _, _)
SetAllAbort(order, i, value, stuck, acc) ==
    IF i > Len(order) THEN [acc EXCEPT !.result = "True"]
    ELSE LET d == order[i]
             flag == IF d \in stuck THEN acc.connected[d] ELSE value
             nxt == [acc EXCEPT !.connected[d] = flag,
                                !.writes = Append(@, d),
                                !.warned = IF flag # value THEN @ \cup {d} ELSE @]
         IN IF flag # value THEN [nxt EXCEPT !.result = "False"]
            ELSE SetAllAbort(order, i + 1, value, stuck, nxt)

Start(conn) == [connected |-> conn, writes |-> << >>, warned |-> {}, result |-> "running"]

connect_all_abort(conn, stuck) == SetAllAbort(DeviceOrder, 1, TRUE, stuck, Start(conn))

connect_all_telescope_first(conn, stuck) ==
    SetAll(DeviceOrder_telescope_first, 1, TRUE, stuck, Start(conn))

connect_all(conn, stuck) == SetAll(DeviceOrder, 1, TRUE, stuck, Start(conn))

disconnect_all_abort(conn, stuck) == SetAllAbort(DeviceOrder, 1, FALSE, stuck, Start(conn))

disconnect_all(conn, stuck) == SetAll(DeviceOrder, 1, FALSE, stuck, Start(conn))

\* The faults of one call: no device access fails, or exactly one does.
Faults(S) == {{}} \cup {{x} : x \in S}

NoCall == [op |-> "none"]

\* Whether the call before this one was a bulk call that logged a warning.
WarnedBefore == call.op \in {"connect_all", "disconnect_all"} /\ call.warned # {}

ConnectAll ==
    /\ caller = "idle"
    /\ \E stuck \in Faults(PresentDevices) :
          LET r == connect_all(connected, stuck)
          IN /\ connected' = r.connected
             /\ call' = [op |-> "connect_all", result |-> r.result,
                         writes |-> r.writes, warned |-> r.warned,
                         prev_op |-> call.op,
                         prev_warned |-> WarnedBefore]
    /\ UNCHANGED <<present, safety_monitor, switch, capability, threadVars, observingVars, coolerVars, otherVars>>

DisconnectAll ==
    /\ caller = "idle"
    /\ \E stuck \in Faults(PresentDevices) :
          LET r == disconnect_all(connected, stuck)
          IN /\ connected' = r.connected
             /\ call' = [op |-> "disconnect_all", result |-> r.result,
                         writes |-> r.writes, warned |-> r.warned,
                         prev_op |-> call.op,
                         prev_warned |-> WarnedBefore]
    /\ UNCHANGED <<present, safety_monitor, switch, capability, threadVars, observingVars, coolerVars, otherVars>>

(***************************************************************************)
(* shutdown.  The capability and state queries read outside a try block    *)
(* propagate what they raise; every command is inside a try block whose    *)
(* except clause logs and goes on.                                         *)
(***************************************************************************)
Queries ==
    {"camera.CanAbortExposure", "cover_calibrator.CalibratorState",
     "cover_calibrator.CoverState", "dome.CanFindPark", "dome.CanSetShutter",
     "telescope.CanPark", "telescope.CanFindHome"}

\* The mount queries slew_to_coordinates makes besides CanPark and CanFindHome.
SlewQueries ==
    {"telescope.AtPark", "telescope.CanSlew", "telescope.CanSlewAsync",
     "telescope.CanSlewAltAz", "telescope.CanSlewAltAzAsync",
     "telescope.CanSetTracking"}

AllQueries == Queries \cup SlewQueries

Commands ==
    {"camera.AbortExposure", "camera.StartExposure", "camera.ImageReady",
     "cover_calibrator.CalibratorOff", "cover_calibrator.HaltCover",
     "cover_calibrator.CloseCover", "dome.AbortSlew", "dome.Park",
     "dome.CloseShutter", "focuser.Halt", "rotator.Halt", "telescope.AbortSlew",
     "telescope.Tracking=False", "telescope.Park", "telescope.FindHome"}

\* __init__ replaces camera.StartExposure by the plain function
\* NewStartExposure(self, Duration, Light), stored as an instance attribute and
\* so called unbound: StartExposure(0, False) passes two of its three
\* parameters and raises TypeError before the driver is reached.
NewStartExposureParameters == 3
StartExposureArguments == 2
NewStartExposureRaises == StartExposureArguments # NewStartExposureParameters

\* The progress of one shutdown: the commands attempted so far, those whose
\* error was caught and logged, and the error that ended the call, if any.
ShutdownStart == [trace |-> << >>, caught |-> {}, err |-> "none"]

\* A command inside try/except: attempted, and its error is caught.
Try(s, cmd, raises) ==
    IF s.err # "none" THEN s
    ELSE [s EXCEPT !.trace = Append(@, cmd),
                   !.caught = IF cmd \in raises THEN @ \cup {cmd} ELSE @]

\* A query outside any try block: its error ends the call.
Read(s, q, raises) ==
    IF s.err = "none" /\ q \in raises THEN [s EXCEPT !.err = q] ELSE s

\* Whether the query was answered, and answered yes.
Yes(s, q) == s.err = "none" /\ capability[q]

\* shutdown_camera with a StartExposure that reaches the driver, so that the
\* wait for ImageReady is entered.
shutdown_camera_started(s, raises) ==
    LET s1 == Read(s, "camera.CanAbortExposure", raises)
        s2 == IF Yes(s1, "camera.CanAbortExposure")
              THEN Try(s1, "camera.AbortExposure", raises) ELSE s1
        s3 == Try(s2, "camera.StartExposure", raises)
    IN IF s3.err # "none"
          \/ "camera.StartExposure" \in raises \/ "camera.ImageReady" \in raises
       THEN s3
       ELSE IF "camera.ImageReady=False" \in raises
            THEN [s3 EXCEPT !.err = "blocked"]
            ELSE s3

shutdown_camera(s, raises) ==
    LET s1 == Read(s, "camera.CanAbortExposure", raises)
        s2 == IF Yes(s1, "camera.CanAbortExposure")
              THEN Try(s1, "camera.AbortExposure", raises) ELSE s1
        s3 == Try(s2, "camera.StartExposure", raises)
    IN IF s3.err # "none" \/ NewStartExposureRaises
          \/ "camera.StartExposure" \in raises \/ "camera.ImageReady" \in raises
       THEN s3
       ELSE IF "camera.ImageReady=False" \in raises
            THEN [s3 EXCEPT !.err = "blocked"]
            ELSE s3

shutdown_cover_calibrator(s, raises) ==
    IF ~present["cover_calibrator"] THEN s
    ELSE LET s1 == Read(s, "cover_calibrator.CalibratorState", raises)
             s2 == IF Yes(s1, "cover_calibrator.CalibratorState")
                   THEN Try(s1, "cover_calibrator.CalibratorOff", raises) ELSE s1
             s3 == Read(s2, "cover_calibrator.CoverState", raises)
         IN IF Yes(s3, "cover_calibrator.CoverState")
            THEN Try(Try(s3, "cover_calibrator.HaltCover", raises),
                     "cover_calibrator.CloseCover", raises)
            ELSE s3

shutdown_dome_close_first(s, raises) ==
    IF ~present["dome"] THEN s
    ELSE LET s1 == Read(s, "dome.CanSetShutter", raises)
             s2 == IF Yes(s1, "dome.CanSetShutter")
                   THEN Try(s1, "dome.CloseShutter", raises) ELSE s1
             s3 == Read(s2, "dome.CanFindPark", raises)
             s4 == IF Yes(s3, "dome.CanFindPark")
                   THEN Try(s3, "dome.Park", raises) ELSE s3
         IN Try(s4, "dome.AbortSlew", raises)

shutdown_dome(s, raises) ==
    IF ~present["dome"] THEN s
    ELSE LET s1 == Try(s, "dome.AbortSlew", raises)
             s2 == Read(s1, "dome.CanFindPark", raises)
             s3 == IF Yes(s2, "dome.CanFindPark")
                   THEN Try(s2, "dome.Park", raises) ELSE s2
             s4 == Read(s3, "dome.CanSetShutter", raises)
         IN IF Yes(s4, "dome.CanSetShutter")
            THEN Try(s4, "dome.CloseShutter", raises) ELSE s4

shutdown_focuser(s, raises) ==
    IF present["focuser"] THEN Try(s, "focuser.Halt", raises) ELSE s

shutdown_rotator(s, raises) ==
    IF present["rotator"] THEN Try(s, "rotator.Halt", raises) ELSE s

shutdown_telescope(s, raises) ==
    LET s1 == Try(s, "telescope.AbortSlew", raises)
        s2 == Try(s1, "telescope.Tracking=False", raises)
        s3 == Read(s2, "telescope.CanPark", raises)
    IN IF s3.err # "none" THEN s3
       ELSE IF capability["telescope.CanPark"]
            THEN Try(s3, "telescope.Park", raises)
            ELSE LET s4 == Read(s3, "telescope.CanFindHome", raises)
                 IN IF Yes(s4, "telescope.CanFindHome")
                    THEN Try(s4, "telescope.FindHome", raises) ELSE s4

shutdown(raises) ==
    LET s == shutdown_telescope(
                 shutdown_rotator(
                     shutdown_focuser(
                         shutdown_dome(
                             shutdown_cover_calibrator(
                                 shutdown_camera(ShutdownStart, raises), raises),
                             raises),
                         raises),
                     raises),
                 raises)
    IN [trace |-> s.trace, caught |-> s.caught, err |-> s.err,
        result |-> IF s.err = "none" THEN "True"
                   ELSE IF s.err = "blocked" THEN "blocked" ELSE "raised"]

\* The device accesses shutdown makes with this installation.
ShutdownAccesses ==
    {a \in Queries \cup Commands \cup {"camera.ImageReady=False"} :
        /\ present["cover_calibrator"] \/ a \notin
              {"cover_calibrator.CalibratorState", "cover_calibrator.CoverState",
               "cover_calibrator.CalibratorOff", "cover_calibrator.HaltCover",
               "cover_calibrator.CloseCover"}
        /\ present["dome"] \/ a \notin
              {"dome.CanFindPark", "dome.CanSetShutter", "dome.AbortSlew",
               "dome.Park", "dome.CloseShutter"}
        /\ present["focuser"] \/ a # "focuser.Halt"
        /\ present["rotator"] \/ a # "rotator.Halt"}

Shutdown ==
    /\ caller = "idle"
    /\ \E raises \in Faults(ShutdownAccesses) :
          LET r == shutdown(raises)
          IN call' = [op |-> "shutdown", result |-> r.result, trace |-> r.trace,
                      caught |-> r.caught, err |-> r.err, raises |-> raises]
    /\ UNCHANGED <<present, safety_monitor, switch, connected, capability, threadVars, observingVars, coolerVars, otherVars>>

\* What the devices of the installation answer; the queries of a device that
\* is not installed are never made and are left at FALSE.
Capabilities ==
    {c \in [AllQueries -> BOOLEAN] :
        /\ \A q \in SlewQueries : ~c[q]
        /\ present["cover_calibrator"] \/
              (~c["cover_calibrator.CalibratorState"] /\ ~c["cover_calibrator.CoverState"])
        /\ present["dome"] \/ (~c["dome.CanFindPark"] /\ ~c["dome.CanSetShutter"])}

InitShutdown ==
    /\ present \in Installations
    /\ present["filter_wheel"] /\ present["observing_conditions"]
    /\ safety_monitor = [none |-> TRUE, n |-> 0]
    /\ switch = [none |-> TRUE, n |-> 0]
    /\ connected = [d \in AllDevices |-> TRUE]
    /\ capability \in Capabilities
    /\ call = NoCall
    /\ InitThreads

NextShutdown == Shutdown

SpecShutdown == InitShutdown /\ [][NextShutdown]_vars

(***************************************************************************)
(* Properties of shutdown (SpecShutdown).                                  *)
(***************************************************************************)
IsShutdown == call.op = "shutdown"

Attempted(cmd) == cmd \in Range(call.trace)

C5_FailureNeverBlocksLaterSteps ==
    IsShutdown =>
        /\ call.result = "True"
        /\ Attempted("telescope.AbortSlew")
        /\ Attempted("telescope.Tracking=False")
        /\ capability["telescope.CanPark"] => Attempted("telescope.Park")
        /\ (~capability["telescope.CanPark"] /\ capability["telescope.CanFindHome"])
              => Attempted("telescope.FindHome")

\* The safing commands in the order the sequence is specified in; Park and
\* FindHome share the last place.
SafingOrder ==
    <<"camera.AbortExposure", "camera.StartExposure",
      "cover_calibrator.CalibratorOff", "cover_calibrator.CloseCover",
      "dome.AbortSlew", "dome.Park", "dome.CloseShutter", "focuser.Halt",
      "rotator.Halt", "telescope.AbortSlew", "telescope.Tracking=False",
      "telescope.Park">>

Place(cmd) ==
    IF cmd = "telescope.FindHome" THEN Len(SafingOrder)
    ELSE CHOOSE i \in 1..Len(SafingOrder) : SafingOrder[i] = cmd

Listed(cmd) == cmd \in Range(SafingOrder) \cup {"telescope.FindHome"}

CommandsOf(kind) ==
    CASE kind = "cover_calibrator" ->
            {"cover_calibrator.CalibratorOff", "cover_calibrator.HaltCover",
             "cover_calibrator.CloseCover"}
      [] kind = "dome" -> {"dome.AbortSlew", "dome.Park", "dome.CloseShutter"}
      [] kind = "focuser" -> {"focuser.Halt"}
      [] kind = "rotator" -> {"rotator.Halt"}
      [] OTHER -> {}

\* C6: shutdown issues its safing commands in the fixed order camera
\* AbortExposure, zero-duration dark exposure, calibrator off, cover close, dome
\* AbortSlew, Park, CloseShutter, focuser Halt, rotator Halt, mount AbortSlew,
\* Tracking off, Park or FindHome: no command is issued before one that comes
\* earlier in this order, and a device that is not installed gets no command.
C6_SafingOrder ==
    IsShutdown =>
        /\ \A i, j \in 1..Len(call.trace) :
              (i < j /\ Listed(call.trace[i]) /\ Listed(call.trace[j]))
                  => Place(call.trace[i]) < Place(call.trace[j])
        /\ \A k \in OptionalKinds :
              ~present[k] => CommandsOf(k) \cap Range(call.trace) = {}

\* A shutdown of a full installation that issued every command of the order.
C6_Witness ==
    /\ IsShutdown
    /\ call.result = "True"
    /\ Range(SafingOrder) \subseteq Range(call.trace)

\* A shutdown without the dome, whose commands are skipped.
C6_WitnessAbsent ==
    /\ IsShutdown
    /\ ~present["dome"]
    /\ Attempted("rotator.Halt")
    /\ Attempted("telescope.Park")

\* C7: the last command of shutdown is mount Park when the mount can park, and
\* mount FindHome when it cannot park and can find home, so that a shutdown of a
\* mount that supports either ends with the mount commanded to a safe position.
C7_EndsWithParkOrHome ==
    IsShutdown =>
        /\ capability["telescope.CanPark"] =>
              (call.trace # << >> /\ call.trace[Len(call.trace)] = "telescope.Park")
        /\ (~capability["telescope.CanPark"] /\ capability["telescope.CanFindHome"]) =>
              (call.trace # << >> /\ call.trace[Len(call.trace)] = "telescope.FindHome")

\* The same, for the shutdowns in which no capability or state query raised.
C7_EndsWithParkOrHomeIfNoQueryRaises ==
    (IsShutdown /\ call.raises \cap Queries = {}) => C7_EndsWithParkOrHome

(***************************************************************************)
(* slew_to_coordinates, for an installation without dome and rotator.      *)
(* The call is a record of its result and of the commands it issued.       *)
(***************************************************************************)
MaxAltitude == 2    \* target altitudes 0..MaxAltitude, in degrees

\* The log call at the head of the function applies % to a format string of
\* six conversions and one number; the other five values are passed to
\* logger.info instead.  The % raises TypeError when the counts differ.
SlewLogConversions == 6
SlewLogOperands == 1
SlewLogRaises == SlewLogConversions # SlewLogOperands

\* get_object_slew and get_object_altaz call Time(t); the module imports
\* astropy.time only as astrotime, so the name Time is unbound (NameError).
TimeIsBound == FALSE

\* Without the log call, the coordinate helpers and the connection test.
slew_prologue_unchecked(telescope_connected, alt, min_altitude) ==
    IF alt <= min_altitude THEN "False" ELSE "go"

\* From the entry to the altitude test: how the call leaves the prologue.
slew_prologue(telescope_connected, alt, min_altitude) ==
    IF SlewLogRaises THEN "TypeError"
    ELSE IF ~TimeIsBound THEN "NameError"
    ELSE IF ~telescope_connected THEN "ObservatoryException"
    ELSE IF alt <= min_altitude THEN "False"
    ELSE "go"

\* Unpark (and FindHome, inside the same branch) and the slew primitive.
slew_mount(home_first) ==
    LET unpark == IF capability["telescope.CanPark"] /\ capability["telescope.AtPark"]
                  THEN <<"telescope.Unpark">>
                       \o (IF capability["telescope.CanFindHome"] /\ home_first
                           THEN <<"telescope.FindHome">> ELSE << >>)
                  ELSE << >>
    IN IF capability["telescope.CanSlew"]
       THEN [trace |-> unpark \o (IF capability["telescope.CanSlewAsync"]
                                  THEN <<"telescope.SlewToCoordinatesAsync">>
                                  ELSE <<"telescope.SlewToCoordinates">>),
             result |-> "go"]
       ELSE IF capability["telescope.CanSlewAltAz"]
       THEN [trace |-> unpark \o (IF capability["telescope.CanSlewAltAzAsync"]
                                  THEN <<"telescope.SlewToAltAzAsync">>
                                  ELSE <<"telescope.SlewToAltAz">>),
             result |-> "go"]
       ELSE [trace |-> unpark, result |-> "ObservatoryException"]

\* The wait loop reads self.control_dome, which is no attribute of the
\* observatory (control_dome is a parameter): a call that waits raises
\* AttributeError in the first pass of the loop.
slew_wait(wait_for_slew) == IF wait_for_slew THEN "AttributeError" ELSE "go"

slew_tracking(track) ==
    IF track /\ capability["telescope.CanSetTracking"]
    THEN <<"telescope.TrackingRate=0", "telescope.Tracking=True">>
    ELSE << >>

slew_to_coordinates(telescope_connected, alt, min_altitude, home_first, wait_for_slew, track) ==
    LET p == slew_prologue(telescope_connected, alt, min_altitude)
        m == slew_mount(home_first)
        w == slew_wait(wait_for_slew)
    IN IF p # "go" THEN [result |-> p, trace |-> << >>]
       ELSE IF m.result # "go" THEN m
       ELSE IF w # "go" THEN [result |-> w, trace |-> m.trace]
       ELSE [result |-> "True", trace |-> m.trace \o slew_tracking(track)]

SlewToCoordinates ==
    /\ caller = "idle"
    /\ \E alt \in 0..MaxAltitude, min_altitude \in 0..1,
          home_first \in BOOLEAN, wait_for_slew \in BOOLEAN, track \in BOOLEAN :
          LET r == slew_to_coordinates(connected[<<"telescope", 0>>], alt,
                                       min_altitude, home_first, wait_for_slew, track)
          IN call' = [op |-> "slew_to_coordinates", result |-> r.result,
                      trace |-> r.trace, low |-> alt <= min_altitude,
                      at_floor |-> alt = min_altitude,
                      telescope_connected |-> connected[<<"telescope", 0>>]]
    /\ UNCHANGED <<present, safety_monitor, switch, connected, capability, threadVars, observingVars, coolerVars, otherVars>>

InitSlew ==
    /\ present = [k \in OptionalKinds |-> FALSE]
    /\ safety_monitor = [none |-> TRUE, n |-> 0]
    /\ switch = [none |-> TRUE, n |-> 0]
    /\ connected = [d \in AllDevices |-> FALSE]
    /\ capability \in {c \in [AllQueries -> BOOLEAN] :
                          \A q \in Queries \ {"telescope.CanPark", "telescope.CanFindHome"} : ~c[q]}
    /\ call = NoCall
    /\ InitThreads

NextSlew == ConnectAll \/ DisconnectAll \/ SlewToCoordinates

SpecSlew == InitSlew /\ [][NextSlew]_vars

(***************************************************************************)
(* Properties of slew_to_coordinates (SpecSlew).                           *)
(***************************************************************************)
IsSlew == call.op = "slew_to_coordinates"

\* C3: with the mount connected, a slew to a target whose altitude is at or
\* below min_altitude (equal included) returns False and issues no command.
C3_LowTargetReturnsFalse ==
    (IsSlew /\ call.telescope_connected /\ call.low) =>
        (call.result = "False" /\ call.trace = << >>)

Terminated(w) == workers[w].pc \in {"done", "dead"}

\* safety_status: the IsSafe flag of every monitor of the list, in order.
Readings == [1..(IF safety_monitor.none THEN 0 ELSE safety_monitor.n) -> BOOLEAN]

\* Python's any(), in the place of all().
AnySafe(safety_array) == \E i \in DOMAIN safety_array : safety_array[i]

\* Python's all(): also true of the empty list.
AllSafe(safety_array) == \A i \in DOMAIN safety_array : safety_array[i]

\* start_safety_monitor_thread(on_fail): refuses when there is no monitor
\* list; otherwise makes a new event and a new worker, whether or not a
\* worker is running already.
StartSafetyMonitorThread ==
    /\ caller = "idle"
    /\ Len(workers) < MaxStarts
    /\ \E on_fail \in {"None", "callback"} :
          IF safety_monitor.none
          THEN /\ call' = [op |-> "start_safety_monitor_thread",
                           result |-> "ObservatoryException"]
               /\ UNCHANGED <<safety_monitor_event, safety_monitor_thread, workers>>
          ELSE /\ safety_monitor_event' = "clear"
               /\ workers' = Append(workers,
                      [pc |-> "test", given |-> on_fail,
                       on_fail |-> IF on_fail = "None" THEN "shutdown" ELSE on_fail,
                       calls |-> 0, exit |-> "running"])
               /\ safety_monitor_thread' = Len(workers) + 1
               /\ call' = [op |-> "start_safety_monitor_thread", result |-> "True"]
    /\ UNCHANGED <<present, safety_monitor, switch, connected, capability, caller,
                   last_poll>>
    /\ UNCHANGED <<observingVars, coolerVars, otherVars>>

\* stop_safety_monitor_thread in the foreground, up to the join: returns
\* False when the event is None, otherwise sets the event.
StopSafetyMonitorThread ==
    /\ caller = "idle"
    /\ IF safety_monitor_event = "None"
       THEN /\ call' = [op |-> "stop_safety_monitor_thread", result |-> "False"]
            /\ UNCHANGED <<safety_monitor_event, caller>>
       ELSE /\ safety_monitor_event' = "set"
            /\ caller' = "join"
            /\ UNCHANGED call
    /\ UNCHANGED <<present, safety_monitor, switch, connected, capability,
                   safety_monitor_thread, workers, last_poll>>
    /\ UNCHANGED <<observingVars, coolerVars, otherVars>>

\* The join of the foreground's stop and what follows it: once the worker the
\* handle names has ended, the event and the handle are set to None.
StopSafetyMonitorThreadJoin ==
    /\ caller = "join"
    /\ IF safety_monitor_thread = 0
       THEN /\ call' = [op |-> "stop_safety_monitor_thread", result |-> "AttributeError"]
            /\ UNCHANGED <<safety_monitor_event, safety_monitor_thread>>
       ELSE /\ Terminated(safety_monitor_thread)
            /\ safety_monitor_event' = "None"
            /\ safety_monitor_thread' = 0
            /\ call' = [op |-> "stop_safety_monitor_thread", result |-> "True"]
    /\ caller' = "idle"
    /\ UNCHANGED <<present, safety_monitor, switch, connected, capability, workers,
                   last_poll>>
    /\ UNCHANGED <<observingVars, coolerVars, otherVars>>

\* The loop test of _update_safety_monitor.
WorkerTest(w) ==
    /\ workers[w].pc = "test"
    /\ workers' = [workers EXCEPT ![w] =
          IF safety_monitor_event = "None"
          THEN [@ EXCEPT !.pc = "dead", !.exit = "AttributeError"]
          ELSE IF safety_monitor_event = "set"
          THEN [@ EXCEPT !.pc = "done", !.exit = "returned"]
          ELSE [@ EXCEPT !.pc = "poll"]]
    /\ UNCHANGED <<present, safety_monitor, switch, connected, capability, call,
                   safety_monitor_event, safety_monitor_thread, caller, last_poll>>
    /\ UNCHANGED <<observingVars, coolerVars, otherVars>>

\* Whether the callback returns: shutdown returns unless a query raises.
CallbackOutcomes(on_fail) ==
    IF on_fail = "shutdown"
    THEN {shutdown(raises).result : raises \in Faults(ShutdownAccesses)}
    ELSE {"True", "raised"}

\* One pass of the loop body: read the monitors; if not all are safe call
\* on_fail and go on to stop the thread, otherwise sleep and test again.
WorkerPoll(w) ==
    /\ workers[w].pc = "poll"
    /\ \E safety_array \in Readings :
          IF AllSafe(safety_array)
          THEN /\ workers' = [workers EXCEPT ![w].pc = "test"]
               /\ last_poll' = [worker |-> w, reading |-> safety_array,
                                invoked |-> "none"]
          ELSE \E outcome \in CallbackOutcomes(workers[w].on_fail) :
                  /\ workers' = [workers EXCEPT ![w] =
                        IF outcome = "True"
                        THEN [@ EXCEPT !.pc = "stop", !.calls = @ + 1]
                        ELSE [@ EXCEPT !.pc = "dead", !.calls = @ + 1,
                                       !.exit = "callback error"]]
                  /\ last_poll' = [worker |-> w, reading |-> safety_array,
                                   invoked |-> workers[w].on_fail]
    /\ UNCHANGED <<present, safety_monitor, switch, connected, capability, call,
                   safety_monitor_event, safety_monitor_thread, caller>>
    /\ UNCHANGED <<observingVars, coolerVars, otherVars>>

\* stop_safety_monitor_thread as the worker calls it after on_fail, up to
\* the join.
WorkerStop(w) ==
    /\ workers[w].pc = "stop"
    /\ IF safety_monitor_event = "None"
       THEN /\ workers' = [workers EXCEPT ![w].pc = "done", ![w].exit = "returned"]
            /\ UNCHANGED safety_monitor_event
       ELSE /\ safety_monitor_event' = "set"
            /\ workers' = [workers EXCEPT ![w].pc = "join"]
    /\ UNCHANGED <<present, safety_monitor, switch, connected, capability, call,
                   safety_monitor_thread, caller, last_poll>>
    /\ UNCHANGED <<observingVars, coolerVars, otherVars>>

\* The join of the worker's stop: Thread.join raises RuntimeError when the
\* handle names the calling thread itself, and the two attributes are then
\* left as they are.
WorkerJoin(w) ==
    /\ workers[w].pc = "join"
    /\ IF safety_monitor_thread = w
       THEN /\ workers' = [workers EXCEPT ![w].pc = "dead", ![w].exit = "RuntimeError"]
            /\ UNCHANGED <<safety_monitor_event, safety_monitor_thread>>
       ELSE IF safety_monitor_thread = 0
       THEN /\ workers' = [workers EXCEPT ![w].pc = "dead", ![w].exit = "AttributeError"]
            /\ UNCHANGED <<safety_monitor_event, safety_monitor_thread>>
       ELSE /\ Terminated(safety_monitor_thread)
            /\ safety_monitor_event' = "None"
            /\ safety_monitor_thread' = 0
            /\ workers' = [workers EXCEPT ![w].pc = "done", ![w].exit = "returned"]
    /\ UNCHANGED <<present, safety_monitor, switch, connected, capability, call,
                   caller, last_poll>>
    /\ UNCHANGED <<observingVars, coolerVars, otherVars>>

InitSafety ==
    /\ present = [k \in OptionalKinds |-> TRUE]
    /\ safety_monitor \in DeviceLists(MaxMonitors)
    /\ switch = [none |-> TRUE, n |-> 0]
    /\ connected = [d \in AllDevices |-> TRUE]
    /\ capability = [q \in AllQueries |-> TRUE]
    /\ call = NoCall
    /\ InitThreads

NextSafety ==
    \/ StartSafetyMonitorThread
    \/ StopSafetyMonitorThread
    \/ StopSafetyMonitorThreadJoin
    \/ \E w \in 1..Len(workers) : WorkerTest(w)
    \/ \E w \in 1..Len(workers) : WorkerPoll(w)
    \/ \E w \in 1..Len(workers) : WorkerStop(w)
    \/ \E w \in 1..Len(workers) : WorkerJoin(w)

SpecSafety == InitSafety /\ [][NextSafety]_vars

(***************************************************************************)
(* Properties of the safety-monitor thread (SpecSafety).                   *)
(***************************************************************************)
\* C1: when a poll finds a monitor unsafe, on_fail is invoked exactly once for
\* that start, the worker ends without polling again, and the loop is then not
\* running: the event and the thread handle are both None.  Stated for a
\* single start whose callback returned, with no stop from the foreground.
C1_UnsafePollEndsTheLoop ==
    \A w \in 1..Len(workers) :
        (/\ Len(workers) = 1
         /\ workers[w].calls > 0
         /\ workers[w].exit # "callback error"
         /\ Terminated(w)
         /\ caller = "idle"
         /\ call.op = "start_safety_monitor_thread")
        => /\ workers[w].calls = 1
           /\ safety_monitor_event = "None"
           /\ safety_monitor_thread = 0

\* The part of C1 the code keeps: on_fail is called at most once by a worker
\* and a worker that called it never polls again.
C1_OnFailOnceThenNoPoll ==
    \A w \in 1..Len(workers) :
        /\ workers[w].calls <= 1
        /\ workers[w].calls = 1 => workers[w].pc \in {"stop", "join", "done", "dead"}

\* C2: a poll in which every monitor reports safe does not invoke on_fail; a
\* poll in which some monitor, whichever, reports unsafe invokes it; and the
\* callback invoked when the caller gave none is shutdown.
C2_OnFailIffSomeMonitorUnsafe ==
    last_poll.worker # 0 =>
        /\ (last_poll.invoked # "none")
              <=> (\E i \in DOMAIN last_poll.reading : ~last_poll.reading[i])
        /\ last_poll.invoked # "none" =>
              last_poll.invoked =
                  (IF workers[last_poll.worker].given = "None" THEN "shutdown"
                   ELSE workers[last_poll.worker].given)

\* A poll of two monitors of which only the second is unsafe, by a worker
\* started without on_fail, which invoked shutdown.
C2_Witness ==
    /\ last_poll.worker # 0
    /\ DOMAIN last_poll.reading = 1..2
    /\ last_poll.reading[1] /\ ~last_poll.reading[2]
    /\ workers[last_poll.worker].given = "None"
    /\ last_poll.invoked = "shutdown"

\* A poll in which both monitors are safe, after which the worker tests the
\* event again.
C2_WitnessSafe ==
    /\ last_poll.worker # 0
    /\ DOMAIN last_poll.reading = 1..2
    /\ last_poll.reading[1] /\ last_poll.reading[2]
    /\ last_poll.invoked = "none"
    /\ workers[last_poll.worker].pc = "test"

(***************************************************************************)
(* The state after Observatory.__init__: every device disconnected, no     *)
(* thread, no event.                                                       *)
(***************************************************************************)
InitConnect ==
    /\ present \in Installations
    /\ safety_monitor \in DeviceLists(MaxMonitors)
    /\ switch \in DeviceLists(MaxSwitches)
    /\ connected = [d \in AllDevices |-> FALSE]
    /\ capability = [q \in AllQueries |-> TRUE]
    /\ call = NoCall
    /\ InitThreads

NextConnect == ConnectAll \/ DisconnectAll

SpecConnect == InitConnect /\ [][NextConnect]_vars

(***************************************************************************)
(* Properties of connect_all / disconnect_all (SpecConnect).               *)
(***************************************************************************)
\* The devices that are installed, whatever the order they are written in.
InstalledDevices ==
    {<<"camera", 0>>, <<"telescope", 0>>}
        \cup {<<k, 0>> : k \in {x \in OptionalKinds : present[x]}}
        \cup (IF safety_monitor.none THEN {}
              ELSE {<<"safety_monitor", i>> : i \in 1..safety_monitor.n})
        \cup (IF switch.none THEN {} ELSE {<<"switch", i>> : i \in 1..switch.n})

IsBulkCall == call.op \in {"connect_all", "disconnect_all"}

KindRank(kind) ==
    CASE kind = "camera" -> 1
      [] kind = "cover_calibrator" -> 2
      [] kind = "dome" -> 3
      [] kind = "filter_wheel" -> 4
      [] kind = "focuser" -> 5
      [] kind = "observing_conditions" -> 6
      [] kind = "rotator" -> 7
      [] kind = "safety_monitor" -> 8
      [] kind = "switch" -> 9
      [] kind = "telescope" -> 10

Before(d1, d2) ==
    \/ KindRank(d1[1]) < KindRank(d2[1])
    \/ (d1[1] = d2[1] /\ d1[2] < d2[2])

\* C10: connect_all and disconnect_all write Connected in the fixed order
\* camera, cover-calibrator, dome, filter wheel, focuser, observing-conditions,
\* rotator, each safety monitor, each switch, telescope; an absent device is
\* skipped and the others keep their relative order.
C10_FixedOrder ==
    IsBulkCall =>
        /\ \A i, j \in 1..Len(call.writes) :
              i < j => Before(call.writes[i], call.writes[j])
        /\ Range(call.writes) \subseteq InstalledDevices

\* A disconnect_all over two safety monitors, a switch and all optional
\* devices but one.
C10_Witness ==
    /\ call.op = "disconnect_all"
    /\ Len(call.writes) >= 10
    /\ \E k \in OptionalKinds : ~present[k]
    /\ ~safety_monitor.none /\ safety_monitor.n = 2
    /\ ~switch.none /\ switch.n = 1

(***************************************************************************)
(* The observing-conditions thread and the derotation thread.              *)
(***************************************************************************)
Ended(w) == refreshers[w].pc \in {"done", "dead"}

\* start_observing_conditions_thread: refuses when there is no observing
\* conditions device; otherwise makes a new event and a new worker, whether
\* or not a worker is running already.
StartObservingConditionsThread ==
    /\ caller = "idle"
    /\ Len(refreshers) < MaxStarts
    /\ IF ~present["observing_conditions"]
       THEN /\ call' = [op |-> "start_observing_conditions_thread",
                        result |-> "ObservatoryException"]
            /\ UNCHANGED observingVars
       ELSE /\ observing_conditions_event' = "clear"
            /\ refreshers' = Append(refreshers, [pc |-> "test", exit |-> "running"])
            /\ observing_conditions_thread' = Len(refreshers) + 1
            /\ call' = [op |-> "start_observing_conditions_thread", result |-> "True"]
    /\ UNCHANGED <<present, safety_monitor, switch, connected, capability,
                   threadVars, coolerVars, otherVars>>

\* stop_observing_conditions_thread up to the join: returns False when the
\* event is None, otherwise sets the event.
StopObservingConditionsThread ==
    /\ caller = "idle"
    /\ IF observing_conditions_event = "None"
       THEN /\ call' = [op |-> "stop_observing_conditions_thread", result |-> "False",
                        running |-> FALSE]
            /\ UNCHANGED <<observing_conditions_event, caller>>
       ELSE /\ observing_conditions_event' = "set"
            /\ caller' = "join observing_conditions"
            /\ UNCHANGED call
    /\ UNCHANGED <<present, safety_monitor, switch, connected, capability,
                   safety_monitor_event, safety_monitor_thread, workers, last_poll,
                   observing_conditions_thread, refreshers, coolerVars, otherVars>>

\* The join and what follows it: once the worker the handle names has ended,
\* the event and the handle are set to None.
StopObservingConditionsThreadJoin ==
    /\ caller = "join observing_conditions"
    /\ Ended(observing_conditions_thread)
    /\ observing_conditions_event' = "None"
    /\ observing_conditions_thread' = 0
    /\ call' = [op |-> "stop_observing_conditions_thread", result |-> "True",
                running |-> TRUE]
    /\ caller' = "idle"
    /\ UNCHANGED <<present, safety_monitor, switch, connected, capability,
                   safety_monitor_event, safety_monitor_thread, workers, last_poll,
                   refreshers, coolerVars, otherVars>>

\* The loop test of _update_observing_conditions.
RefresherTest(w) ==
    /\ refreshers[w].pc = "test"
    /\ refreshers' = [refreshers EXCEPT ![w] =
          IF observing_conditions_event = "None"
          THEN [pc |-> "dead", exit |-> "AttributeError"]
          ELSE IF observing_conditions_event = "set"
          THEN [pc |-> "done", exit |-> "returned"]
          ELSE [pc |-> "refresh", exit |-> "running"]]
    /\ UNCHANGED <<present, safety_monitor, switch, connected, capability, call,
                   threadVars, observing_conditions_event,
                   observing_conditions_thread, coolerVars, otherVars>>

\* A loop body whose error is not confined to the loop: it raises and sets
\* the event of the safety-monitor loop.
RefresherRefreshFatal(w) ==
    /\ refreshers[w].pc = "refresh"
    /\ refreshers' = [refreshers EXCEPT ![w] = [pc |-> "dead", exit |-> "Refresh error"]]
    /\ safety_monitor_event' = "set"
    /\ UNCHANGED <<present, safety_monitor, switch, connected, capability, call,
                   safety_monitor_thread, workers, caller, last_poll,
                   observing_conditions_event, observing_conditions_thread,
                   coolerVars, otherVars>>

\* The loop body: observing_conditions.Refresh(), which may raise, and the sleep.
RefresherRefresh(w) ==
    /\ refreshers[w].pc = "refresh"
    /\ \E raises \in BOOLEAN :
          refreshers' = [refreshers EXCEPT ![w] =
              IF raises THEN [pc |-> "dead", exit |-> "Refresh error"]
              ELSE [pc |-> "test", exit |-> "running"]]
    /\ UNCHANGED <<present, safety_monitor, switch, connected, capability, call,
                   threadVars, observing_conditions_event,
                   observing_conditions_thread, coolerVars, otherVars>>

\* __init__ creates derotation_thread and derotation_event, without the
\* underscore; the attribute _derotation_event that stop_derotation_thread
\* reads is created only by start_derotation_thread.
derotation_event == "undefined"

\* start_derotation_thread: refuses when there is no rotator; otherwise
\* evaluates Time.now(), an unbound name, before it creates anything.
start_derotation_thread ==
    IF ~present["rotator"] THEN "ObservatoryException"
    ELSE IF ~TimeIsBound THEN "NameError"
    ELSE "True"

\* stop_derotation_thread, called with the attribute in this state.
stop_derotation_thread(event) ==
    IF event = "undefined" THEN "AttributeError"
    ELSE IF event = "None" THEN "False"
    ELSE "True"

\* _update_rotator passes command to rotator.Move before its first
\* assignment to command, at the end of the loop body (UnboundLocalError).
CommandIsBound == FALSE

\* The first pass of the loop of _update_rotator, with the event clear or set:
\* how the worker goes on.
update_rotator(event_is_set) ==
    IF event_is_set THEN "returned"
    ELSE IF ~CommandIsBound THEN "UnboundLocalError"
    ELSE "rotator.Move"

StartDerotationThread ==
    /\ caller = "idle"
    /\ call' = [op |-> "start_derotation_thread", result |-> start_derotation_thread,
                loop |-> IF start_derotation_thread = "True" THEN update_rotator(FALSE)
                         ELSE "not started"]
    /\ UNCHANGED <<present, safety_monitor, switch, connected, capability,
                   threadVars, observingVars, coolerVars, otherVars>>

StopDerotationThread ==
    /\ caller = "idle"
    /\ call' = [op |-> "stop_derotation_thread",
                result |-> stop_derotation_thread(derotation_event),
                running |-> derotation_event \notin {"undefined", "None"}]
    /\ UNCHANGED <<present, safety_monitor, switch, connected, capability,
                   threadVars, observingVars, coolerVars, otherVars>>

(***************************************************************************)
(* slew_to_coordinates with a rotator (control_dome = False, home_first =  *)
(* False, wait_for_slew = False, track = False).                           *)
(***************************************************************************)
\* The derotation loop is stopped first when the rotator is to be controlled.
slew_stop_derotation(control_rotator) ==
    IF control_rotator /\ present["rotator"]
    THEN stop_derotation_thread(derotation_event)
    ELSE "skipped"

\* The log call before rotator.MoveAbsolute formats hour_angle, a name the
\* function never assigns (NameError).
HourAngleIsBound == FALSE

\* The rotator part: the commands issued and how the part ends.
slew_rotator(control_rotator) ==
    IF control_rotator /\ present["rotator"]
    THEN IF HourAngleIsBound
         THEN [trace |-> <<"rotator.MoveAbsolute">>, result |-> "go"]
         ELSE [trace |-> << >>, result |-> "NameError"]
    ELSE [trace |-> << >>, result |-> "go"]

slew_to_coordinates_rotator(telescope_connected, alt, min_altitude, control_rotator) ==
    LET p == slew_prologue(telescope_connected, alt, min_altitude)
        d == slew_stop_derotation(control_rotator)
        m == slew_mount(FALSE)
        r == slew_rotator(control_rotator)
    IN IF p # "go" THEN [result |-> p, trace |-> << >>]
       ELSE IF d = "AttributeError" THEN [result |-> d, trace |-> << >>]
       ELSE IF m.result # "go" THEN m
       ELSE IF r.result # "go" THEN [result |-> r.result, trace |-> m.trace \o r.trace]
       ELSE [result |-> "True", trace |-> m.trace \o r.trace]

SlewToCoordinatesRotator ==
    /\ caller = "idle"
    /\ \E alt \in 0..MaxAltitude, control_rotator \in BOOLEAN :
          LET r == slew_to_coordinates_rotator(connected[<<"telescope", 0>>], alt, 0,
                                               control_rotator)
          IN call' = [op |-> "slew_to_coordinates", result |-> r.result,
                      trace |-> r.trace, low |-> alt <= 0,
                      control_rotator |-> control_rotator,
                      derotation_active |-> derotation_event \notin {"undefined", "None"}]
    /\ UNCHANGED <<present, safety_monitor, switch, connected, capability,
                   threadVars, observingVars, coolerVars, otherVars>>

InitLoops ==
    /\ present \in Installations
    /\ safety_monitor = [none |-> TRUE, n |-> 0]
    /\ switch = [none |-> TRUE, n |-> 0]
    /\ connected = [d \in AllDevices |-> TRUE]
    /\ capability = [q \in AllQueries |-> TRUE]
    /\ call = NoCall
    /\ InitThreads

NextLoops ==
    \/ StartObservingConditionsThread
    \/ StopObservingConditionsThread
    \/ StopObservingConditionsThreadJoin
    \/ \E w \in 1..Len(refreshers) : RefresherTest(w)
    \/ \E w \in 1..Len(refreshers) : RefresherRefresh(w)
    \/ StartDerotationThread
    \/ StopDerotationThread
    \/ SlewToCoordinatesRotator

SpecLoops == InitLoops /\ [][NextLoops]_vars

(***************************************************************************)
(* Properties of the background loops (SpecLoops).                         *)
(***************************************************************************)
Alive == {w \in 1..Len(refreshers) : ~Ended(w)}

IsStop == call.op \in {"stop_observing_conditions_thread", "stop_derotation_thread"}

\* C11: starting a background loop that is already running is a no-op: it
\* creates no second worker, so at most one worker of the loop is alive in
\* every reachable state.
C11_AtMostOneWorker == Cardinality(Alive) <= 1

\* C12: stopping a loop that is not running (never started, or stopped
\* already) raises no error and changes no state: the call returns False and
\* the events, the handles and the workers are as they were.
C12_StopOfIdleLoopIsNoOp ==
    [][(IsStop' /\ call' # call /\ ~call'.running)
          => (call'.result = "False" /\ UNCHANGED observingVars)]_vars

\* The part of C12 the code keeps: the same, of the observing-conditions loop.
C12_StopOfIdleObservingConditionsIsNoOp ==
    [][(call'.op = "stop_observing_conditions_thread" /\ call' # call /\ ~call'.running)
          => (call'.result = "False" /\ UNCHANGED observingVars)]_vars

\* C13: stopping a running loop is synchronous: when the stop call has
\* returned, every worker of the loop has ended, so that none issues a further
\* device call, and the event and the handle are None.
C13_StopIsSynchronous ==
    (call.op = "stop_observing_conditions_thread" /\ call.running /\ caller = "idle")
        => (Alive = {} /\ observing_conditions_event = "None"
                       /\ observing_conditions_thread = 0)

\* The same, of a loop that was started once.
C13_StopIsSynchronousAfterOneStart ==
    (Len(refreshers) = 1 /\ call.op = "stop_observing_conditions_thread"
                         /\ call.running /\ caller = "idle")
        => (Alive = {} /\ observing_conditions_event = "None"
                       /\ observing_conditions_thread = 0)

\* C14: a slew with rotator control requested and a rotator present stops an
\* active derotation loop before it commands the rotator, and when derotation is
\* not active the slew proceeds normally: a slew to a target above the altitude
\* floor with the mount connected returns True.
C14_SlewWithRotatorProceeds ==
    (/\ call.op = "slew_to_coordinates"
     /\ call.control_rotator /\ present["rotator"]
     /\ ~call.derotation_active /\ ~call.low)
        => call.result = "True"

\* C34: start_derotation_thread with a rotator starts the loop, and the
\* loop issues a rotator correction in every iteration until stop is called:
\* it does not end on its own.
C34_DerotationRunsUntilStopped ==
    (call.op = "start_derotation_thread" /\ present["rotator"])
        => (call.result = "True" /\ call.loop = "rotator.Move")

(***************************************************************************)
(* recenter, called with the target pixel given.  The plate solver is an   *)
(* input: the pixel error (object position minus target pixel) it yields,  *)
(* the same in every attempt.                                              *)
(***************************************************************************)
MaxAttempts == 2       \* max_attempts is 0..MaxAttempts
MaxPixelError == 5     \* the pixel errors are -MaxPixelError, 0 and MaxPixelError
MaxSolvers == 2        \* solvers in self.wcs

\* The default of the parameter tolerance, in pixels.
tolerance == 3

\* Names the body of recenter reads and that nothing binds: attempt_number
\* (the counter is attempt), WCS (no import), max_pixel_error (the parameter
\* is tolerance).
AttemptNumberIsBound == FALSE
WCSIsBound == FALSE
MaxPixelErrorIsBound == FALSE

Max(a, b) == IF a >= b THEN a ELSE b

Abs(a) == IF a >= 0 THEN a ELSE -a

\* The test that ends the attempts: the larger of the two signed errors
\* against the limit.
recenter_centered(error_x_pixels, error_y_pixels, max_pixel_error) ==
    Max(error_x_pixels, error_y_pixels) <= max_pixel_error

\* self.wcs is taken to be a list of solvers.  The loop over it is written
\* for wcs, i in enumerate(self.wcs), which binds wcs to the position, a number
\* without a Solve method (AttributeError).
EnumerateGivesSolverFirst == FALSE

\* The solving step of one attempt, of solvers that do (TRUE) or do not find a
\* solution: the solvers invoked, in order, and how the step ends.
recenter_solve(solvers) ==
    IF ~WCSIsBound THEN [result |-> "NameError", tried |-> << >>]
    ELSE IF ~EnumerateGivesSolverFirst THEN [result |-> "AttributeError", tried |-> << >>]
    ELSE LET found == {i \in 1..Len(solvers) : solvers[i]}
         IN IF found = {}
            THEN [result |-> "unsolved", tried |-> [i \in 1..Len(solvers) |-> i]]
            ELSE LET first == CHOOSE i \in found : \A k \in found : i <= k
                 IN [result |-> "solved", tried |-> [i \in 1..first |-> i]]

\* One pass of the loop up to the plate solution: the error that ends it, or
\* "solved" or "unsolved".  slews and exposures count the calls made on the
\* way, tried lists the solvers invoked.
recenter_attempt(slew, check_and_refine, solvers) ==
    IF ~TimeIsBound
    THEN [result |-> "NameError", slews |-> 0, exposures |-> 0, tried |-> << >>]
    ELSE IF slew /\ SlewLogRaises
    THEN [result |-> "TypeError", slews |-> 1, exposures |-> 0, tried |-> << >>]
    ELSE IF ~check_and_refine /\ ~AttemptNumberIsBound
    THEN [result |-> "NameError", slews |-> IF slew THEN 1 ELSE 0, exposures |-> 0,
          tried |-> << >>]
    ELSE IF NewStartExposureRaises
    THEN [result |-> "TypeError", slews |-> IF slew THEN 1 ELSE 0, exposures |-> 1,
          tried |-> << >>]
    ELSE LET v == recenter_solve(solvers)
         IN [result |-> v.result, slews |-> IF slew THEN 1 ELSE 0, exposures |-> 1,
             tried |-> v.tried]

\* The for loop from pass attempt on, its else clause and the sync.  updates
\* counts the corrections applied to the working target, tried lists the
\* solvers invoked as pairs <<attempt, solver>>.
RECURSIVE recenter_loop(_, _, _, _, _, _, _, _)
recenter_loop(attempt, max_attempts, error_x_pixels, error_y_pixels, check_and_refine, do_initial_slew, sync_mount, solvers) ==
    IF attempt = max_attempts
    THEN [result |-> "False", attempts |-> attempt, slews |-> 0, exposures |-> 0,
          synced |-> FALSE, updates |-> 0, tried |-> << >>]
    ELSE LET a == recenter_attempt(attempt > 0 \/ do_initial_slew, check_and_refine,
                                   solvers)
             tried == [i \in 1..Len(a.tried) |-> <<attempt + 1, a.tried[i]>>]
             rest == recenter_loop(attempt + 1, max_attempts, error_x_pixels,
                                   error_y_pixels, check_and_refine, do_initial_slew,
                                   sync_mount, solvers)
             more == [rest EXCEPT !.slews = @ + a.slews, !.exposures = @ + a.exposures,
                                  !.tried = tried \o @]
             end == [result |-> a.result, attempts |-> attempt + 1, slews |-> a.slews,
                     exposures |-> a.exposures, synced |-> FALSE, updates |-> 0,
                     tried |-> tried]
         IN IF a.result = "unsolved" THEN more
            ELSE IF a.result # "solved" THEN end
            ELSE IF ~MaxPixelErrorIsBound THEN [end EXCEPT !.result = "NameError"]
            ELSE IF recenter_centered(error_x_pixels, error_y_pixels, tolerance)
            THEN [end EXCEPT !.result = IF sync_mount /\ ~TimeIsBound THEN "NameError"
                                        ELSE "True",
                             !.synced = sync_mount /\ TimeIsBound]
            ELSE [more EXCEPT !.updates = @ + 1]

\* recenter with the sync placed after the loop and its else clause alike.
recenter_sync_always(max_attempts, error_x_pixels, error_y_pixels, check_and_refine, do_initial_slew, sync_mount, solvers) ==
    [recenter_loop(0, max_attempts, error_x_pixels, error_y_pixels, check_and_refine,
                   do_initial_slew, sync_mount, solvers) EXCEPT !.synced = sync_mount]

recenter(max_attempts, error_x_pixels, error_y_pixels, check_and_refine, do_initial_slew, sync_mount, solvers) ==
    recenter_loop(0, max_attempts, error_x_pixels, error_y_pixels, check_and_refine,
                  do_initial_slew, sync_mount, solvers)

PixelErrors == {-MaxPixelError, 0, MaxPixelError}

\* The solvers configured: those before some position find no solution, those
\* from it on find one.
Solvers == {[i \in 1..MaxSolvers |-> i >= k] : k \in 1..(MaxSolvers + 1)}

Recenter ==
    /\ caller = "idle"
    /\ \E max_attempts \in 0..MaxAttempts, error_x_pixels \in PixelErrors,
          error_y_pixels \in PixelErrors, check_and_refine \in BOOLEAN,
          do_initial_slew \in BOOLEAN, sync_mount \in BOOLEAN, solvers \in Solvers :
          LET r == recenter(max_attempts, error_x_pixels, error_y_pixels,
                            check_and_refine, do_initial_slew, sync_mount, solvers)
          IN call' = [op |-> "recenter", result |-> r.result, attempts |-> r.attempts,
                      slews |-> r.slews, exposures |-> r.exposures,
                      synced |-> r.synced, max_attempts |-> max_attempts,
                      error_x_pixels |-> error_x_pixels,
                      error_y_pixels |-> error_y_pixels,
                      do_initial_slew |-> do_initial_slew, sync_mount |-> sync_mount,
                      solvers |-> solvers, tried |-> r.tried, updates |-> r.updates]
    /\ UNCHANGED <<present, safety_monitor, switch, connected, capability,
                   threadVars, observingVars, coolerVars, otherVars>>

\* The test of the pixel errors by itself, on every pair of errors and limit.
RecenterCentered ==
    /\ caller = "idle"
    /\ \E error_x_pixels \in PixelErrors, error_y_pixels \in PixelErrors,
          max_pixel_error \in {0, tolerance} :
          call' = [op |-> "recenter_centered", error_x_pixels |-> error_x_pixels,
                   error_y_pixels |-> error_y_pixels,
                   max_pixel_error |-> max_pixel_error,
                   result |-> recenter_centered(error_x_pixels, error_y_pixels,
                                                max_pixel_error)]
    /\ UNCHANGED <<present, safety_monitor, switch, connected, capability,
                   threadVars, observingVars, coolerVars, otherVars>>

InitRecenter ==
    /\ present = [k \in OptionalKinds |-> TRUE]
    /\ safety_monitor = [none |-> TRUE, n |-> 0]
    /\ switch = [none |-> TRUE, n |-> 0]
    /\ connected = [d \in AllDevices |-> TRUE]
    /\ capability = [q \in AllQueries |-> TRUE]
    /\ call = NoCall
    /\ InitThreads

NextRecenter == Recenter \/ RecenterCentered

SpecRecenter == InitRecenter /\ [][NextRecenter]_vars

(***************************************************************************)
(* Properties of recenter (SpecRecenter).                                  *)
(***************************************************************************)
IsRecenter == call.op = "recenter"

WorstAxisError == Max(Abs(call.error_x_pixels), Abs(call.error_y_pixels))

\* C15: when the worst-axis pixel error of every attempt exceeds the
\* tolerance, recenter returns False after exactly max_attempts attempts and
\* does not sync the mount, sync_mount or not.
C15_ExhaustedAttemptsReturnFalse ==
    (IsRecenter /\ WorstAxisError > tolerance)
        => (call.result = "False" /\ call.attempts = call.max_attempts /\ ~call.synced)

\* C16: when the first attempt's pixel error is within the tolerance, recenter
\* returns True after exactly one attempt: one slew and one exposure.
C16_FirstAttemptSucceeds ==
    (IsRecenter /\ WorstAxisError <= tolerance /\ call.max_attempts >= 1
                /\ call.do_initial_slew)
        => (call.result = "True" /\ call.attempts = 1 /\ call.slews = 1
                                 /\ call.exposures = 1)

NoSolverSolves == \A i \in 1..Len(call.solvers) : ~call.solvers[i]

\* C27: a run of recenter in which no solver ever returns a solution makes
\* max_attempts attempts, never corrects the working target, and ends as a
\* reported failure (False).
C27_UnsolvedRunFailsAfterMaxAttempts ==
    IsRecenter /\ NoSolverSolves
        => /\ call.result = "False"
           /\ call.attempts = call.max_attempts
           /\ call.updates = 0

TriedInFirstAttempt ==
    LET first == SelectSeq(call.tried, LAMBDA p : p[1] = 1)
    IN [i \in 1..Len(first) |-> first[i][2]]

SolversInOrder ==
    LET n == Len(call.solvers)
        stop == IF NoSolverSolves THEN n
                ELSE CHOOSE i \in 1..n :
                         call.solvers[i] /\ \A k \in 1..(i - 1) : ~call.solvers[k]
    IN [i \in 1..stop |-> i]

\* C29: in an attempt of recenter the configured solvers are invoked in their
\* configured order up to the first that returns a solution and none after
\* it; the attempt counts as unsolved only when all of them fail.
C29_SolversTriedInOrderUntilFirstSuccess ==
    IsRecenter /\ call.max_attempts > 0
        => /\ TriedInFirstAttempt = SolversInOrder
           /\ (call.result = "False" => NoSolverSolves)

(***************************************************************************)
(* The cooler settings and the calibration sequences take_flats and        *)
(* take_darks.  Temperatures are in hundredths of a degree Celsius.        *)
(***************************************************************************)
SetpointSpan == 1    \* setpoints requested: AbsoluteZero -/+ SetpointSpan
MaxTolerance == 1    \* tolerances requested: -1..MaxTolerance
MaxFilters == 2      \* len(self.filters)
MaxRepeat == 2       \* repeat is 0..MaxRepeat
MaxPolls == 2        \* temperature readings before one exposure

\* The floor of the cooler_setpoint setter, -273.15.
AbsoluteZero == -27315

CameraQueries == {"camera.CanSetCCDTemperature"}

\* cooler_setpoint = value.  The condition of the conditional expression,
\* value is not None or value != "", holds of every value, so None goes to
\* float() and raises TypeError before anything is stored.  The value is
\* stored before the camera is asked whether it takes a setpoint.
cooler_setpoint_unclamped(value) ==
    IF value = None
    THEN [result |-> "TypeError", stored |-> cooler_setpoint, sent |-> SetCCDTemperature]
    ELSE [result |-> IF capability["camera.CanSetCCDTemperature"] THEN "set"
                     ELSE "ObservatoryException",
          stored |-> value,
          sent |-> IF capability["camera.CanSetCCDTemperature"] THEN value
                   ELSE SetCCDTemperature]

cooler_setpoint_setter(value) ==
    IF value = None
    THEN [result |-> "TypeError", stored |-> cooler_setpoint, sent |-> SetCCDTemperature]
    ELSE LET clamped == Some(Max(value[1], AbsoluteZero))
         IN [result |-> IF capability["camera.CanSetCCDTemperature"] THEN "set"
                        ELSE "ObservatoryException",
             stored |-> clamped,
             sent |-> IF capability["camera.CanSetCCDTemperature"] THEN clamped
                      ELSE SetCCDTemperature]

\* cooler_tolerance = value: the same conditional, with the floor 0 and
\* nothing sent to the camera.
cooler_tolerance_setter(value) ==
    IF value = None
    THEN [result |-> "TypeError", stored |-> cooler_tolerance]
    ELSE [result |-> "set", stored |-> Some(Max(value[1], 0))]

SetCoolerSetpoint ==
    /\ caller = "idle"
    /\ \E value \in {None} \cup {Some(v) : v \in AbsoluteZero - SetpointSpan ..
                                                 AbsoluteZero + SetpointSpan} :
          LET r == cooler_setpoint_setter(value)
          IN /\ cooler_setpoint' = r.stored
             /\ SetCCDTemperature' = r.sent
             /\ call' = [op |-> "cooler_setpoint", result |-> r.result, value |-> value]
             /\ config' = IF r.result = "TypeError" THEN config
                          ELSE [config EXCEPT !.cooler_setpoint = StrFloat(r.stored[1])]
    /\ UNCHANGED <<present, safety_monitor, switch, connected, capability,
                   threadVars, observingVars, cooler_tolerance,
                   elevation, site_min_altitude, last_camera_shutter_status,
                   focusVars>>

SetCoolerTolerance ==
    /\ caller = "idle"
    /\ \E value \in {None} \cup {Some(v) : v \in -1 .. MaxTolerance} :
          LET r == cooler_tolerance_setter(value)
          IN /\ cooler_tolerance' = r.stored
             /\ call' = [op |-> "cooler_tolerance", result |-> r.result, value |-> value]
             /\ config' = IF r.result = "TypeError" THEN config
                          ELSE [config EXCEPT !.cooler_tolerance =
                                   IF value[1] < 0 THEN StrInt(0)
                                   ELSE StrFloat(r.stored[1])]
    /\ UNCHANGED <<present, safety_monitor, switch, connected, capability,
                   threadVars, observingVars, cooler_setpoint, SetCCDTemperature,
                   elevation, site_min_altitude, last_camera_shutter_status,
                   focusVars>>

\* take_flats and take_darks start an exposure with camera.StartExposure and
\* test camera.ImageReady, where camera is a name nothing binds (the camera
\* is self.camera): the first exposure raises NameError.
CameraIsBound == FALSE

\* The temperatures the CCD may read: one above every threshold that can be
\* set, and one above none.
Hottest == AbsoluteZero + SetpointSpan + MaxTolerance + 1

Temperatures == {AbsoluteZero, Hottest}

\* The readings of one wait: the CCD reads the hottest value some polls long
\* and then any value.
Readings_CCD ==
    {[p \in 1..n |-> IF p < n THEN Hottest ELSE t] : n \in 1..MaxPolls, t \in Temperatures}

\* The events of a sequence are pairs <<what, argument>>.
Polls(temps, n) == [p \in 1..n |-> <<"camera.CCDTemperature", temps[p]>>]

\* No wait at all before the exposure.
cooler_wait_skipped(temps) == [result |-> "go", trace |-> << >>]

\* The wait before an exposure: while CCDTemperature > cooler_setpoint +
\* cooler_tolerance, sleep.  A setting that is None makes the sum raise
\* TypeError; readings that never come down leave the call in the loop.
cooler_wait(temps) ==
    IF ~capability["camera.CanSetCCDTemperature"]
    THEN [result |-> "go", trace |-> << >>]
    ELSE IF cooler_setpoint = None \/ cooler_tolerance = None
    THEN [result |-> "TypeError", trace |-> Polls(temps, 1)]
    ELSE LET threshold == cooler_setpoint[1] + cooler_tolerance[1]
             cool == {p \in 1..Len(temps) : ~(temps[p] > threshold)}
         IN IF cool = {}
            THEN [result |-> "waiting", trace |-> Polls(temps, Len(temps))]
            ELSE LET first == CHOOSE p \in cool : \A q \in cool : p <= q
                 IN [result |-> "go", trace |-> Polls(temps, first)]

\* The frames of a sequence in the order of the nested loops: group (filter
\* or dark exposure), readout, binning, repeat index.
Frame(idx, readouts, binnings, repeat) ==
    [group |-> (idx \div (readouts * binnings * repeat)) + 1,
     readout |-> ((idx \div (binnings * repeat)) % readouts) + 1,
     binning |-> ((idx \div repeat) % binnings) + 1,
     j |-> idx % repeat]

Frames(groups, readouts, binnings, repeat) ==
    [k \in 1..(groups * readouts * binnings * repeat) |->
        Frame(k - 1, readouts, binnings, repeat)]

\* The innermost loop body for the frames from the k-th on: wait for the
\* cooler, for a flat move the filter wheel and light the calibrator, start
\* the exposure, wait for the image and save it.
RECURSIVE expose(_, _, _, _, _)
expose(frames, k, temps, flat, s) ==
    IF k > Len(frames) THEN s
    ELSE LET w == cooler_wait(temps)
             setup == IF flat
                      THEN << <<"filter_wheel.Position", frames[k].group>>,
                              <<"cover_calibrator.CalibratorOn", frames[k].group>> >>
                      ELSE << >>
             start == << <<"camera.StartExposure", frames[k].group>> >>
         IN IF w.result # "go"
            THEN [s EXCEPT !.result = w.result, !.trace = @ \o w.trace]
            ELSE IF ~CameraIsBound
            THEN [s EXCEPT !.result = "NameError",
                           !.trace = @ \o w.trace \o setup \o start]
            ELSE expose(frames, k + 1, temps, flat,
                        [s EXCEPT !.trace = @ \o w.trace \o setup \o start,
                                  !.saved = Append(@, frames[k])])

\* take_flats with the calibrator turned off and the cover closed ahead of the
\* frames instead of after them.
take_flats_closing_first(filter_exposure, readouts, repeat, temps) ==
    LET done == << <<"telescope.SlewToAltAz", 0>>, <<"telescope.Tracking=False", 0>>,
                   <<"cover_calibrator.OpenCover", 0>>,
                   <<"cover_calibrator.CalibratorOff", 0>>,
                   <<"cover_calibrator.CloseCover", 0>> >>
        frames == SelectSeq(Frames(MaxFilters, readouts, 2, repeat),
                            LAMBDA f : filter_exposure[f.group] # 0)
        e == expose(frames, 1, temps, TRUE,
                    [result |-> "go", trace |-> done, saved |-> << >>])
    IN IF ~present["filter_wheel"] \/ ~present["cover_calibrator"]
          \/ Len(filter_exposure) # MaxFilters
       THEN [result |-> "False", trace |-> << >>, saved |-> << >>]
       ELSE IF e.result # "go" THEN e ELSE [e EXCEPT !.result = "True"]

\* take_flats(filter_exposure, filter_brightness, readouts, binnings=(1, 1),
\* repeat, save_path) with filter_brightness a list and save_path given.
\* The default binnings is a pair of numbers, read as two binnings.
take_flats(filter_exposure, readouts, repeat, temps) ==
    IF ~present["filter_wheel"] \/ ~present["cover_calibrator"]
    THEN [result |-> "False", trace |-> << >>, saved |-> << >>]
    ELSE IF Len(filter_exposure) # MaxFilters
    THEN [result |-> "False", trace |-> << >>, saved |-> << >>]
    ELSE IF ~capability["telescope.CanSlewAltAz"] /\ capability["telescope.CanSlew"]
            /\ ~TimeIsBound
    THEN [result |-> "NameError", trace |-> << >>, saved |-> << >>]
    ELSE LET point == (IF capability["telescope.CanSlewAltAz"]
                       THEN << <<"telescope.SlewToAltAz", 0>> >> ELSE << >>)
                      \o << <<"telescope.Tracking=False", 0>> >>
                      \o (IF capability["cover_calibrator.CoverState"]
                          THEN << <<"cover_calibrator.OpenCover", 0>> >> ELSE << >>)
             frames == SelectSeq(Frames(MaxFilters, readouts, 2, repeat),
                                 LAMBDA f : filter_exposure[f.group] # 0)
             e == expose(frames, 1, temps, TRUE,
                         [result |-> "go", trace |-> point, saved |-> << >>])
             close == (IF capability["cover_calibrator.CalibratorState"]
                       THEN << <<"cover_calibrator.CalibratorOff", 0>> >> ELSE << >>)
                      \o (IF capability["cover_calibrator.CoverState"]
                          THEN << <<"cover_calibrator.CloseCover", 0>> >> ELSE << >>)
         IN IF e.result # "go" THEN e
            ELSE [result |-> "True", trace |-> e.trace \o close, saved |-> e.saved]

\* take_darks(exposures, readouts, binnings, repeat, save_path) with
\* save_path given and one binning.
take_darks(exposures, readouts, repeat, temps) ==
    LET e == expose(Frames(exposures, readouts, 1, repeat), 1, temps, FALSE,
                    [result |-> "go", trace |-> << >>, saved |-> << >>])
    IN IF e.result # "go" THEN e ELSE [e EXCEPT !.result = "None"]

\* An exposure time of 0 or 1 for every filter, or a list one entry short.
FilterExposures ==
    [1..MaxFilters -> 0..1] \cup {[i \in 1..(MaxFilters - 1) |-> 1]}

TakeFlats ==
    /\ caller = "idle"
    /\ \E filter_exposure \in FilterExposures, readouts \in 1..2,
          repeat \in 0..MaxRepeat, temps \in Readings_CCD :
          LET r == take_flats(filter_exposure, readouts, repeat, temps)
          IN call' = [op |-> "take_flats", result |-> r.result, trace |-> r.trace,
                      saved |-> r.saved, filter_exposure |-> filter_exposure,
                      readouts |-> readouts, repeat |-> repeat]
    /\ UNCHANGED <<present, safety_monitor, switch, connected, capability,
                   threadVars, observingVars, coolerVars, otherVars>>

TakeDarks ==
    /\ caller = "idle"
    /\ \E exposures \in 0..1, readouts \in 1..2,
          repeat \in 0..MaxRepeat, temps \in Readings_CCD :
          LET r == take_darks(exposures, readouts, repeat, temps)
          IN call' = [op |-> "take_darks", result |-> r.result, trace |-> r.trace,
                      saved |-> r.saved]
    /\ UNCHANGED <<present, safety_monitor, switch, connected, capability,
                   threadVars, observingVars, coolerVars, otherVars>>

\* The cooler settings are made by the setters; the camera may or may not
\* take a setpoint.
InitCooler ==
    /\ present = [k \in OptionalKinds |-> TRUE]
    /\ safety_monitor = [none |-> TRUE, n |-> 0]
    /\ switch = [none |-> TRUE, n |-> 0]
    /\ connected = [d \in AllDevices |-> TRUE]
    /\ capability \in {c \in [AllQueries \cup CameraQueries -> BOOLEAN] :
                          \A q \in AllQueries : c[q]}
    /\ call = NoCall
    /\ InitThreads

NextCooler == SetCoolerSetpoint \/ SetCoolerTolerance \/ TakeDarks

SpecCooler == InitCooler /\ [][NextCooler]_vars

\* take_flats, with or without a filter wheel, after the cooler settings
\* were left unset or were set to the floor and tolerance 0.
InitFlats ==
    /\ present \in {p \in Installations :
                       \A k \in OptionalKinds \ {"filter_wheel"} : p[k]}
    /\ safety_monitor = [none |-> TRUE, n |-> 0]
    /\ switch = [none |-> TRUE, n |-> 0]
    /\ connected = [d \in AllDevices |-> TRUE]
    /\ capability \in {c \in [AllQueries \cup CameraQueries -> BOOLEAN] :
                          \A q \in AllQueries : c[q]}
    /\ call = NoCall
    /\ safety_monitor_event = "None"
    /\ safety_monitor_thread = 0
    /\ workers = << >>
    /\ caller = "idle"
    /\ last_poll = [worker |-> 0]
    /\ observing_conditions_event = "None"
    /\ observing_conditions_thread = 0
    /\ refreshers = << >>
    /\ \/ cooler_setpoint = None /\ cooler_tolerance = None /\ SetCCDTemperature = None
       \/ /\ cooler_setpoint = Some(AbsoluteZero)
          /\ cooler_tolerance = Some(0)
          /\ SetCCDTemperature = IF capability["camera.CanSetCCDTemperature"]
                                 THEN Some(AbsoluteZero) ELSE None
    /\ InitOther

NextFlats == TakeFlats

SpecFlats == InitFlats /\ [][NextFlats]_vars

(***************************************************************************)
(* Properties of the calibration sequences and the cooler settings         *)
(* (SpecFlats, SpecCooler).                                                *)
(***************************************************************************)
IsSequence == call.op \in {"take_flats", "take_darks"}

Events(what) == {k \in DOMAIN call.trace : call.trace[k][1] = what}

\* The frames a flats job asks for: every filter with a non-zero exposure,
\* readout, binning and repeat index.
FramesAskedFor ==
    SelectSeq(Frames(MaxFilters, call.readouts, 2, call.repeat),
              LAMBDA f : call.filter_exposure[f.group] # 0)

\* C18: take_flats saves exactly one frame for every combination of filter
\* with non-zero exposure, readout mode, binning and repeat index, and none for
\* a filter whose exposure is 0.  Stated for the calls that pass the entry
\* checks and whose cooler waits end.
C18_OneFramePerCombination ==
    (/\ call.op = "take_flats"
     /\ present["filter_wheel"] /\ Len(call.filter_exposure) = MaxFilters
     /\ call.result \notin {"waiting", "TypeError"})
        => call.saved = FramesAskedFor

\* The part of C18 the code keeps: the filter wheel is never moved to a filter
\* whose exposure is 0 and no exposure is started for it.
C18_SkippedFilterUntouched ==
    (call.op = "take_flats" /\ Len(call.filter_exposure) = MaxFilters)
        => \A k \in Events("filter_wheel.Position") \cup Events("camera.StartExposure") :
              call.filter_exposure[call.trace[k][2]] # 0

AllBefore(first, then) == \A a \in first, b \in then : a < b

CoolerThreshold == cooler_setpoint[1] + cooler_tolerance[1]

\* C19: when the camera supports temperature control, take_flats and take_darks
\* start an exposure only after a reading of the CCD temperature at or below
\* cooler_setpoint + cooler_tolerance, and every reading before it, since the
\* exposure before, was above that threshold and made the sequencer wait.
C19_ExposureOnlyWhenCool ==
    (IsSequence /\ capability["camera.CanSetCCDTemperature"])
        => /\ \A k \in Events("camera.StartExposure") :
                 /\ cooler_setpoint # None /\ cooler_tolerance # None
                 /\ \E p \in Events("camera.CCDTemperature") :
                       /\ p < k
                       /\ call.trace[p][2] <= CoolerThreshold
                       /\ \A q \in Events("camera.CCDTemperature") :
                             q < k => q <= p
           /\ \A p \in Events("camera.CCDTemperature") :
                 (p + 1 \in Events("camera.CCDTemperature"))
                     => (cooler_setpoint = None \/ cooler_tolerance = None
                         \/ call.trace[p][2] > CoolerThreshold)

\* A dark sequence that found the CCD above the threshold, waited, and
\* started its exposure after the reading at the threshold.
C19_Witness ==
    /\ call.op = "take_darks"
    /\ capability["camera.CanSetCCDTemperature"]
    /\ cooler_setpoint # None /\ cooler_tolerance # None
    /\ Len(call.trace) = 3
    /\ call.trace[1][1] = "camera.CCDTemperature" /\ call.trace[1][2] > CoolerThreshold
    /\ call.trace[2][1] = "camera.CCDTemperature" /\ call.trace[2][2] = CoolerThreshold
    /\ call.trace[3][1] = "camera.StartExposure"

\* C20: after any sequence of cooler_setpoint assignments the stored setpoint
\* is never below -273.15: an assignment of a number stores the larger of the
\* number and -273.15, and what is sent to the camera is the stored value.
C20_SetpointNeverBelowAbsoluteZero ==
    /\ cooler_setpoint = None \/ cooler_setpoint[1] >= AbsoluteZero
    /\ SetCCDTemperature = None \/ SetCCDTemperature[1] >= AbsoluteZero
    /\ (call.op = "cooler_setpoint" /\ call.value # None)
          => /\ cooler_setpoint = Some(Max(call.value[1], AbsoluteZero))
             /\ call.result = "set" => SetCCDTemperature = cooler_setpoint

\* An assignment below the floor that stored the floor and sent it to the camera.
C20_Witness ==
    /\ call.op = "cooler_setpoint"
    /\ call.value # None /\ call.value[1] < AbsoluteZero
    /\ call.result = "set"
    /\ cooler_setpoint = Some(AbsoluteZero)
    /\ SetCCDTemperature = Some(AbsoluteZero)

(***************************************************************************)
(* slew_to_coordinates, the whole call: mount, dome, rotator, wait,        *)
(* settle and tracking.                                                    *)
(***************************************************************************)
\* What the dome block reads of the dome.  "dome.ShutterState" says whether
\* the driver has an attribute of that name (the ASCOM driver names it
\* ShutterStatus), "dome.ShutterOpen" whether the shutter is open.
DomeQueries ==
    {"dome.ShutterState", "dome.ShutterOpen", "dome.CanFindHome", "dome.CanPark",
     "dome.AtPark", "dome.Slaved", "dome.CanSetAltitude", "dome.CanSetAzimuth"}

\* The shutter test reads self.CanSetShutter, of the observatory and not of
\* the dome; the observatory has no attribute of that name (AttributeError).
CanSetShutterIsAttribute == FALSE

\* The dome block: the commands issued and how the block ends.
slew_dome(control_dome) ==
    IF ~(control_dome /\ present["dome"]) THEN [trace |-> << >>, result |-> "go"]
    ELSE IF ~capability["dome.ShutterState"]
    THEN [trace |-> << >>, result |-> "AttributeError"]
    ELSE IF ~capability["dome.ShutterOpen"] /\ ~CanSetShutterIsAttribute
    THEN [trace |-> << >>, result |-> "AttributeError"]
    ELSE LET shutter == IF ~capability["dome.ShutterOpen"]
                           /\ capability["dome.CanSetShutter"]
                        THEN <<"dome.OpenShutter">>
                             \o (IF capability["dome.CanFindHome"]
                                 THEN <<"dome.FindHome">> ELSE << >>)
                        ELSE << >>
             home == IF capability["dome.CanPark"] /\ capability["dome.AtPark"]
                        /\ capability["dome.CanFindHome"]
                     THEN <<"dome.FindHome">> ELSE << >>
             point == IF capability["dome.Slaved"] THEN << >>
                      ELSE (IF capability["dome.CanSetAltitude"]
                            THEN <<"dome.SlewToAltitude">> ELSE << >>)
                           \o (IF capability["dome.CanSetAzimuth"]
                               THEN <<"dome.SlewToAzimuth">> ELSE << >>)
         IN [trace |-> shutter \o home \o point, result |-> "go"]

\* crosses says whether the rotator angle passes a mechanical limit.  The
\* limit test only sets the local control_rotator to FALSE, which nothing
\* reads afterwards: the move is issued outside the test and the wait loop
\* reads self.control_rotator.  So crosses changes nothing the call does.
slew_to_coordinates_all(telescope_connected, alt, min_altitude, control_dome, control_rotator, crosses, home_first, wait_for_slew, track) ==
    LET p == slew_prologue(telescope_connected, alt, min_altitude)
        s == slew_stop_derotation(control_rotator)
        m == slew_mount(home_first)
        d == slew_dome(control_dome)
        r == slew_rotator(control_rotator)
        w == slew_wait(wait_for_slew)
    IN IF p # "go" THEN [result |-> p, trace |-> << >>]
       ELSE IF s = "AttributeError" THEN [result |-> s, trace |-> << >>]
       ELSE IF m.result # "go" THEN m
       ELSE IF d.result # "go" THEN [result |-> d.result, trace |-> m.trace \o d.trace]
       ELSE IF r.result # "go"
       THEN [result |-> r.result, trace |-> m.trace \o d.trace \o r.trace]
       ELSE IF w # "go" THEN [result |-> w, trace |-> m.trace \o d.trace \o r.trace]
       ELSE [result |-> "True",
             trace |-> m.trace \o d.trace \o r.trace \o <<"time.sleep(settle_time)">>
                       \o slew_tracking(track)]

SlewToCoordinatesAll ==
    /\ caller = "idle"
    /\ \E alt \in {0, MaxAltitude}, control_dome \in BOOLEAN, control_rotator \in BOOLEAN,
          crosses \in BOOLEAN, home_first \in BOOLEAN, wait_for_slew \in BOOLEAN,
          track \in BOOLEAN :
          LET r == slew_to_coordinates_all(connected[<<"telescope", 0>>], alt, 0,
                                           control_dome, control_rotator, crosses,
                                           home_first, wait_for_slew, track)
          IN call' = [op |-> "slew_to_coordinates", result |-> r.result,
                      trace |-> r.trace, low |-> alt <= 0,
                      control_dome |-> control_dome,
                      control_rotator |-> control_rotator, crosses |-> crosses,
                      home_first |-> home_first, wait_for_slew |-> wait_for_slew,
                      track |-> track]
    /\ UNCHANGED <<present, safety_monitor, switch, connected, capability,
                   threadVars, observingVars, coolerVars, otherVars>>

\* The queries a slew makes.
SlewAllQueries ==
    SlewQueries \cup DomeQueries \cup {"telescope.CanPark", "telescope.CanFindHome"}

\* Every device connected; a dome and a rotator, or one of them missing; every
\* query answered TRUE but at most one.
InitSlewAll ==
    /\ present \in {p \in Installations :
                       \A k \in OptionalKinds \ {"dome", "rotator"} : p[k]}
    /\ safety_monitor = [none |-> TRUE, n |-> 0]
    /\ switch = [none |-> TRUE, n |-> 0]
    /\ connected = [d \in AllDevices |-> TRUE]
    /\ capability \in {[q \in AllQueries \cup DomeQueries |-> q # f] :
                          f \in SlewAllQueries \cup {"none"}}
    /\ call = NoCall
    /\ InitThreads

NextSlewAll == SlewToCoordinatesAll

SpecSlewAll == InitSlewAll /\ [][NextSlewAll]_vars

\* An accepted slew: the telescope is connected and the target is above the
\* minimum altitude.
Accepted == call.op = "slew_to_coordinates" /\ ~call.low

Issued(what) == {k \in DOMAIN call.trace : call.trace[k] \in what}

Primitives ==
    {"telescope.SlewToCoordinatesAsync", "telescope.SlewToCoordinates",
     "telescope.SlewToAltAzAsync", "telescope.SlewToAltAz"}

InOrder(first, then) == \A a \in first, b \in then : a < b

\* The primitive the stated priority selects, "none" if the mount has none.
PrimitiveByPriority ==
    IF capability["telescope.CanSlewAsync"] THEN "telescope.SlewToCoordinatesAsync"
    ELSE IF capability["telescope.CanSlew"] THEN "telescope.SlewToCoordinates"
    ELSE IF capability["telescope.CanSlewAltAzAsync"] THEN "telescope.SlewToAltAzAsync"
    ELSE IF capability["telescope.CanSlewAltAz"] THEN "telescope.SlewToAltAz"
    ELSE "none"

\* C21: an accepted slew issues exactly one slew primitive, the first the
\* mount supports of asynchronous equatorial, synchronous equatorial,
\* asynchronous horizontal, synchronous horizontal; a mount that supports none
\* makes the slew an error with no primitive issued.
C21_OnePrimitiveByPriority ==
    Accepted
        => IF PrimitiveByPriority = "none"
           THEN call.result = "ObservatoryException" /\ Issued(Primitives) = {}
           ELSE /\ Cardinality(Issued(Primitives)) = 1
                /\ Issued({PrimitiveByPriority}) # {}

\* C22: an accepted slew unparks a parked mount, finds home when home_first
\* is requested and supported (parked or not), then issues the primitive,
\* settles and sets tracking, in this order.
C22_MountStepsInOrder ==
    Accepted
        => /\ call.result = "True"
           /\ capability["telescope.AtPark"] => Issued({"telescope.Unpark"}) # {}
           /\ call.home_first /\ capability["telescope.CanFindHome"]
                 => Issued({"telescope.FindHome"}) # {}
           /\ InOrder(Issued({"telescope.Unpark"}), Issued({"telescope.FindHome"}))
           /\ InOrder(Issued({"telescope.Unpark", "telescope.FindHome"}),
                      Issued(Primitives))
           /\ InOrder(Issued(Primitives), Issued({"time.sleep(settle_time)"}))
           /\ InOrder(Issued({"time.sleep(settle_time)"}),
                      Issued({"telescope.TrackingRate=0", "telescope.Tracking=True"}))

\* C23: an accepted slew with wait_for_slew waits for the mount, the dome and
\* the rotator, and once none of them moves it goes on to settle and returns
\* True.
C23_WaitThenSettle ==
    Accepted /\ call.wait_for_slew
        => /\ call.result = "True"
           /\ Issued({"time.sleep(settle_time)"}) # {}
           /\ InOrder(Issued(Primitives), Issued({"time.sleep(settle_time)"}))

\* C24: an accepted slew returns True, and it writes Tracking exactly when
\* track is requested and the mount can set tracking.
C24_TrackingIffRequestedAndSupported ==
    Accepted
        => /\ call.result = "True"
           /\ Issued({"telescope.Tracking=True"}) # {}
                 <=> call.track /\ capability["telescope.CanSetTracking"]

\* C25: an accepted slew with rotator control whose rotator angle crosses a
\* mechanical limit commands no rotator move and still returns True.
C25_LimitCrossingSkipsRotator ==
    Accepted /\ call.control_rotator /\ present["rotator"] /\ call.crosses
        => call.result = "True" /\ Issued({"rotator.MoveAbsolute"}) = {}

DomeCommands ==
    {"dome.OpenShutter", "dome.FindHome", "dome.SlewToAltitude", "dome.SlewToAzimuth"}

\* C26: an accepted slew issues no dome command when dome control is not
\* requested or there is no dome, and no SlewToAltitude or SlewToAzimuth to a
\* slaved dome; with dome control, a dome and no slaving it commands the dome
\* altitude and azimuth where supported, after opening a shutter that is not
\* open.
C26_DomeCommandedOnlyWhenControlled ==
    Accepted
        => /\ ~(call.control_dome /\ present["dome"]) => Issued(DomeCommands) = {}
           /\ capability["dome.Slaved"]
                 => Issued({"dome.SlewToAltitude", "dome.SlewToAzimuth"}) = {}
           /\ call.control_dome /\ present["dome"] /\ ~capability["dome.Slaved"]
                 => /\ capability["dome.CanSetAltitude"]
                          => Issued({"dome.SlewToAltitude"}) # {}
                    /\ capability["dome.CanSetAzimuth"]
                          => Issued({"dome.SlewToAzimuth"}) # {}
                    /\ ~capability["dome.ShutterOpen"]
                          => Issued({"dome.OpenShutter"}) # {}
                    /\ InOrder(Issued({"dome.OpenShutter"}),
                               Issued({"dome.SlewToAltitude", "dome.SlewToAzimuth"}))

(***************************************************************************)
(* take_flats with final_telescope_position.                               *)
(***************************************************************************)
FinalPositions == {"no change", "home", "park"}

\* The end of take_flats after the calibrator is off: the mount commands.
\* The position handling is indented under the test of CoverState, so it is
\* skipped with the cover.
take_flats_final(final_telescope_position) ==
    IF ~capability["cover_calibrator.CoverState"] THEN << >>
    ELSE IF final_telescope_position = "no change" THEN << >>
    ELSE IF final_telescope_position = "home" /\ capability["telescope.CanFindHome"]
    THEN << <<"telescope.FindHome", 0>> >>
    ELSE IF final_telescope_position = "park" /\ capability["telescope.CanPark"]
    THEN << <<"telescope.Park", 0>> >>
    ELSE << >>

take_flats_position(filter_exposure, readouts, repeat, temps, final_telescope_position) ==
    LET r == take_flats(filter_exposure, readouts, repeat, temps)
    IN IF r.result = "True"
       THEN [r EXCEPT !.trace = @ \o take_flats_final(final_telescope_position)]
       ELSE r

TakeFlatsPosition ==
    /\ caller = "idle"
    /\ \E filter_exposure \in FilterExposures, repeat \in 0..MaxRepeat,
          final_telescope_position \in FinalPositions :
          LET r == take_flats_position(filter_exposure, 1, repeat, <<AbsoluteZero>>,
                                       final_telescope_position)
          IN call' = [op |-> "take_flats", result |-> r.result, trace |-> r.trace,
                      saved |-> r.saved, filter_exposure |-> filter_exposure,
                      readouts |-> 1, repeat |-> repeat,
                      final_telescope_position |-> final_telescope_position]
    /\ UNCHANGED <<present, safety_monitor, switch, connected, capability,
                   threadVars, observingVars, coolerVars, otherVars>>

\* Every device installed and connected, the cooler set to the floor; the
\* cover may be missing from the calibrator and the mount may lack FindHome
\* or Park.
InitFlatsPosition ==
    /\ present = [k \in OptionalKinds |-> TRUE]
    /\ safety_monitor = [none |-> TRUE, n |-> 0]
    /\ switch = [none |-> TRUE, n |-> 0]
    /\ connected = [d \in AllDevices |-> TRUE]
    /\ capability \in {c \in [AllQueries \cup CameraQueries -> BOOLEAN] :
                          \A q \in (AllQueries \cup CameraQueries)
                                      \ {"cover_calibrator.CoverState",
                                         "telescope.CanFindHome",
                                         "telescope.CanPark"} : c[q]}
    /\ call = NoCall
    /\ safety_monitor_event = "None"
    /\ safety_monitor_thread = 0
    /\ workers = << >>
    /\ caller = "idle"
    /\ last_poll = [worker |-> 0]
    /\ observing_conditions_event = "None"
    /\ observing_conditions_thread = 0
    /\ refreshers = << >>
    /\ cooler_setpoint = Some(AbsoluteZero)
    /\ cooler_tolerance = Some(0)
    /\ SetCCDTemperature = Some(AbsoluteZero)
    /\ InitOther

NextFlatsPosition == TakeFlatsPosition

SpecFlatsPosition == InitFlatsPosition /\ [][NextFlatsPosition]_vars

MountCommandsAtEnd == Events("telescope.FindHome") \cup Events("telescope.Park")

\* C31: a run of take_flats that completes sends the mount home when
\* final_telescope_position is "home" and the mount can find home, parks it
\* when it is "park" and the mount can park, with or without a cover, and
\* sends the mount nothing more when it is "no change".
C31_FinalPositionHonoured ==
    call.op = "take_flats" /\ call.result = "True"
        => /\ call.final_telescope_position = "home"
              /\ capability["telescope.CanFindHome"]
                 => Events("telescope.FindHome") # {}
           /\ call.final_telescope_position = "park" /\ capability["telescope.CanPark"]
                 => Events("telescope.Park") # {}
           /\ call.final_telescope_position = "no change" => MountCommandsAtEnd = {}

(***************************************************************************)
(* The setters of elevation, min_altitude and cooler_setpoint with the     *)
(* configuration mirror.                                                   *)
(***************************************************************************)
ValueSpan == 1       \* the numbers set lie within ValueSpan of 0 and of 90

\* float(value): the float, or the error float() raises.
float(value) ==
    CASE value.type = "None" -> [result |-> "TypeError", float |-> PyNaN]
      [] value.type = "str" -> [result |-> "ValueError", float |-> PyNaN]
      [] value.type = "int" -> [result |-> "ok", float |-> PyFloat(100 * value.v)]
      [] OTHER -> [result |-> "ok", float |-> value]

\* The condition of the conditional expression of the setters.
is_not_None_or_not_empty(value) == value # PyNone \/ value # PyEmptyString

\* elevation = value: what is stored, or the error raised before the store.
elevation_setter(value) ==
    IF ~is_not_None_or_not_empty(value) THEN [result |-> "set", stored |-> None]
    ELSE LET f == float(value)
         IN IF f.result # "ok" THEN [result |-> f.result, stored |-> elevation]
            ELSE [result |-> "set", stored |-> Some(PyMax(f.float, PyInt(0)))]

\* min_altitude = value, likewise, within 0 and 90.
min_altitude_setter(value) ==
    IF ~is_not_None_or_not_empty(value) THEN [result |-> "set", stored |-> None]
    ELSE LET f == float(value)
         IN IF f.result # "ok" THEN [result |-> f.result, stored |-> site_min_altitude]
            ELSE [result |-> "set",
                  stored |-> Some(PyMin(PyMax(f.float, PyInt(0)), PyInt(90)))]

Values ==
    {PyNone, PyEmptyString, PyNaN}
        \cup {PyFloat(100 * k) : k \in (-ValueSpan)..ValueSpan}
        \cup {PyFloat(9000 + 100 * k) : k \in (-ValueSpan)..ValueSpan}

SetElevation ==
    /\ caller = "idle"
    /\ \E value \in Values :
          LET r == elevation_setter(value)
          IN /\ elevation' = r.stored
             /\ config' = IF r.result # "set" THEN config
                          ELSE [config EXCEPT !.elevation = mirror(r.stored)]
             /\ call' = [op |-> "elevation", result |-> r.result, value |-> value]
    /\ UNCHANGED <<present, safety_monitor, switch, connected, capability,
                   threadVars, observingVars, coolerVars, site_min_altitude,
                   last_camera_shutter_status, focusVars>>

SetMinAltitude ==
    /\ caller = "idle"
    /\ \E value \in Values :
          LET r == min_altitude_setter(value)
          IN /\ site_min_altitude' = r.stored
             /\ config' = IF r.result # "set" THEN config
                          ELSE [config EXCEPT !.min_altitude = mirror(r.stored)]
             /\ call' = [op |-> "min_altitude", result |-> r.result, value |-> value]
    /\ UNCHANGED <<present, safety_monitor, switch, connected, capability,
                   threadVars, observingVars, coolerVars, elevation,
                   last_camera_shutter_status, focusVars>>

InitSetters == InitCooler

NextSetters == SetElevation \/ SetMinAltitude \/ SetCoolerSetpoint

SpecSetters == InitSetters /\ [][NextSetters]_vars

IsSetter == call.op \in {"elevation", "min_altitude", "cooler_setpoint"}

\* A stored number, in hundredths.
Hundredths(x) == IF x.type = "int" THEN 100 * x.v ELSE x.v

Within(stored, low, high) ==
    stored = None
        \/ (stored[1].type # "nan" /\ Hundredths(stored[1]) >= low
                                    /\ Hundredths(stored[1]) <= high)

\* The largest number set, in hundredths.
Highest == 9000 + 100 * ValueSpan

\* C32: after every call of a setter, also one that ends in an error, each
\* mirror entry is the string form of the stored field, and each stored field
\* lies in its physical domain: elevation not below 0, min_altitude within 0
\* and 90, cooler_setpoint not below -273.15.
C32_MirrorAgreesAndFieldsClamped ==
    IsSetter
        => /\ config.elevation = mirror(elevation)
           /\ config.min_altitude = mirror(site_min_altitude)
           /\ config.cooler_setpoint = (IF cooler_setpoint = None THEN << >>
                                        ELSE StrFloat(cooler_setpoint[1]))
           /\ Within(elevation, 0, Highest)
           /\ Within(site_min_altitude, 0, 9000)
           /\ cooler_setpoint # None => cooler_setpoint[1] >= AbsoluteZero

(***************************************************************************)
(* The safety-monitor loop, started once, and the observing-conditions     *)
(* loop side by side, with the foreground stopping the second.             *)
(***************************************************************************)
InitBackground ==
    /\ present = [k \in OptionalKinds |-> TRUE]
    /\ safety_monitor = [none |-> FALSE, n |-> 1]
    /\ switch = [none |-> TRUE, n |-> 0]
    /\ connected = [d \in AllDevices |-> TRUE]
    /\ capability = [q \in AllQueries |-> TRUE]
    /\ call = NoCall
    /\ InitThreads

NextBackground ==
    \/ (workers = << >> /\ StartSafetyMonitorThread)
    \/ \E w \in 1..Len(workers) : WorkerTest(w)
    \/ \E w \in 1..Len(workers) : WorkerPoll(w)
    \/ \E w \in 1..Len(workers) : WorkerStop(w)
    \/ \E w \in 1..Len(workers) : WorkerJoin(w)
    \/ StartObservingConditionsThread
    \/ StopObservingConditionsThread
    \/ StopObservingConditionsThreadJoin
    \/ \E w \in 1..Len(refreshers) : RefresherTest(w)
    \/ \E w \in 1..Len(refreshers) : RefresherRefresh(w)

SpecBackground == InitBackground /\ [][NextBackground]_vars

DiesOfRefreshError(w) ==
    refreshers[w].exit # "Refresh error" /\ refreshers'[w].exit = "Refresh error"

\* C33: a Refresh error ends the observing-conditions worker that met it and
\* touches nothing else: the foreground call, the safety-monitor loop and any
\* other worker go on as they were; and when the foreground then stops the
\* loop, the join on the ended worker does not block: the stop can complete,
\* and it leaves the event and the handle None, as a start finds them.
C33_RefreshErrorEndsOnlyItsLoop ==
    /\ [][\A w \in 1..Len(refreshers) :
             DiesOfRefreshError(w)
                 => /\ UNCHANGED <<call, caller, threadVars,
                                   observing_conditions_event,
                                   observing_conditions_thread>>
                    /\ \A v \in 1..Len(refreshers) : v # w => refreshers'[v] = refreshers[v]]_vars
    /\ []((/\ caller = "join observing_conditions"
           /\ observing_conditions_thread # 0
           /\ refreshers[observing_conditions_thread].exit = "Refresh error")
              => ENABLED StopObservingConditionsThreadJoin)
    /\ [][(caller = "join observing_conditions" /\ caller' = "idle")
              => (/\ call'.result = "True"
                  /\ observing_conditions_event' = "None"
                  /\ observing_conditions_thread' = 0)]_vars

\* The loop, started once, ended by a Refresh error and was then stopped by
\* the foreground, while the safety-monitor worker goes on polling; the loop
\* can be started again.
C33_Witness ==
    /\ Len(refreshers) = 1 /\ refreshers[1].exit = "Refresh error"
    /\ call.op = "stop_observing_conditions_thread" /\ call.result = "True"
    /\ caller = "idle"
    /\ observing_conditions_event = "None" /\ observing_conditions_thread = 0
    /\ Len(workers) = 1 /\ workers[1].exit = "running"
    /\ ENABLED StartObservingConditionsThread

(***************************************************************************)
(* The frame type of a saved image: camera.StartExposure as __init__       *)
(* replaces it, and save_last_image.                                       *)
(***************************************************************************)
MaxDuration == 2     \* exposure durations are 0..MaxDuration

PyBool(b) == IF b THEN "True" ELSE "False"

\* self.camera.StartExposure(Duration, Light) as the observatory's methods
\* call it: how the call ends and the shutter status recorded.
NewStartExposure(Duration, Light) ==
    IF NewStartExposureRaises
    THEN [result |-> "TypeError", status |-> last_camera_shutter_status]
    ELSE [result |-> "started", status |-> PyBool(Light)]

FrameTypes == {"None", "Light", "Dark", "Flat", "Bias"}

\* save_last_image(filename, frametyp) up to the FRAMETYP keyword: False when
\* the camera has no image, otherwise the frame type written.
save_last_image(frametyp, ImageReady, ImageArray) ==
    IF ~ImageReady THEN [result |-> "False", FRAMETYP |-> "none"]
    ELSE IF ImageArray = "empty" THEN [result |-> "False", FRAMETYP |-> "none"]
    ELSE [result |-> "header",
          FRAMETYP |-> IF frametyp # "None" THEN frametyp
                       ELSE IF last_camera_shutter_status = "True" THEN "Light"
                       ELSE "Dark"]

CameraStartExposure ==
    /\ caller = "idle"
    /\ \E Duration \in 0..MaxDuration, Light \in BOOLEAN :
          LET r == NewStartExposure(Duration, Light)
          IN /\ last_camera_shutter_status' = r.status
             /\ call' = [op |-> "camera.StartExposure", result |-> r.result,
                         Duration |-> Duration, Light |-> PyBool(Light)]
    /\ UNCHANGED <<present, safety_monitor, switch, connected, capability,
                   threadVars, observingVars, coolerVars, siteVars, focusVars>>

\* shutter is the shutter command of the exposure start the call follows, if
\* it follows one.
SaveLastImage ==
    /\ caller = "idle"
    /\ \E frametyp \in FrameTypes, ImageReady \in BOOLEAN,
          ImageArray \in {"empty", "image"} :
          LET r == save_last_image(frametyp, ImageReady, ImageArray)
          IN call' = [op |-> "save_last_image", result |-> r.result,
                      FRAMETYP |-> r.FRAMETYP, frametyp |-> frametyp,
                      shutter |-> IF call.op = "camera.StartExposure"
                                  THEN call.Light ELSE "None",
                      Duration |-> IF call.op = "camera.StartExposure"
                                   THEN call.Duration ELSE 0]
    /\ UNCHANGED <<present, safety_monitor, switch, connected, capability,
                   threadVars, observingVars, coolerVars, otherVars>>

InitFrames == InitCooler

NextFrames == CameraStartExposure \/ SaveLastImage

SpecFrames == InitFrames /\ [][NextFrames]_vars

C38_NoPollerWithoutMonitor ==
    /\ (call.op = "start_safety_monitor_thread" /\ call.result = "True")
          => (~safety_monitor.none /\ safety_monitor.n >= 1)
    /\ (safety_monitor.none \/ safety_monitor.n = 0) => workers = << >>

(***************************************************************************)
(* set_filter_offset_focuser.                                              *)
(***************************************************************************)
OffsetStep == 2      \* the configured offsets are 0, OffsetStep, 2 * OffsetStep, ...
MaxIncrement == 4    \* focuser.MaxIncrement
MaxStep == 12        \* focuser.MaxStep

FocuserQueries == {"focuser.Absolute"}

PyStr(chars) == [type |-> "str", v |-> chars]

FilterNames == <<"L", "R", "G", "B">>

\* self.filters: the filters setter stores list(value) and joins it with
\* ", ", which only a list of strings survives.
filters == SubSeq(FilterNames, 1, MaxFilters)

\* self.filter_focus_offsets: the setter stores dict(zip(self.filters, value))
\* and joins the values with ", ", which only string values survive.  The
\* offset of the filter at Python index i is the string of i * OffsetStep.
filter_focus_offsets ==
    [name \in {filters[i] : i \in 1..Len(filters)} |->
        PyStr(StrInt(((CHOOSE i \in 1..Len(filters) : filters[i] = name) - 1)
                     * OffsetStep))]

\* self.filters.index(filter_name): the Python index, or None for ValueError.
index(filter_name) ==
    IF \E i \in 1..Len(filters) : filters[i] = filter_name
    THEN Some((CHOOSE i \in 1..Len(filters) : filters[i] = filter_name) - 1)
    ELSE None

\* self.filter_focus_offsets[key]: None for KeyError.  The keys are filter
\* names, and no integer equals a string.
getitem(key) ==
    IF key.type = "str" /\ key.v \in DOMAIN filter_focus_offsets
    THEN Some(filter_focus_offsets[key.v])
    ELSE None

\* a - b: None for TypeError (a string minus a number).
sub(a, b) == IF a.type = "str" \/ b.type = "str" THEN None ELSE Some(PyInt(a.v - b.v))

\* The focuser block of set_filter_offset_focuser, the filter wheel set.
\* The new offset is stored before the range tests.
set_focus_offset(filter_index, Position) ==
    LET looked == getitem(PyInt(filter_index))
        diff == sub(looked[1], current_focus_offset)
        offset == diff[1]
        base == [Position |-> Position, offset |-> current_focus_offset, Move |-> << >>]
    IN IF ~present["focuser"]
       THEN base @@ [result |-> "None"]
       ELSE IF ~connected[<<"focuser", 0>>]
       THEN base @@ [result |-> "ObservatoryException"]
       ELSE IF looked = None
       THEN base @@ [result |-> "KeyError"]
       ELSE IF diff = None
       THEN base @@ [result |-> "TypeError"]
       ELSE IF ~(offset.v < MaxIncrement)
       THEN [base EXCEPT !.offset = offset] @@ [result |-> "ObservatoryException"]
       ELSE IF capability["focuser.Absolute"]
       THEN IF focuser_Position + offset.v > 0 /\ focuser_Position + offset.v < MaxStep
            THEN [base EXCEPT !.offset = offset,
                              !.Move = <<focuser_Position + offset.v>>]
                 @@ [result |-> "True"]
            ELSE [base EXCEPT !.offset = offset] @@ [result |-> "ObservatoryException"]
       ELSE [base EXCEPT !.offset = offset, !.Move = <<offset.v>>]
            @@ [result |-> "True"]

\* set_filter_offset_focuser(filter_index, filter_name): the filter wheel is
\* set before the focuser is looked at.
set_filter_offset_focuser(filter_index, filter_name) ==
    LET found == IF filter_index = None THEN index(filter_name) ELSE filter_index
        failed == [result |-> "ObservatoryException", Position |-> filter_wheel_Position,
                   offset |-> current_focus_offset, Move |-> << >>]
    IN IF found = None THEN failed
       ELSE IF ~present["filter_wheel"] THEN failed
       ELSE IF ~connected[<<"filter_wheel", 0>>] THEN failed
       ELSE set_focus_offset(found[1], found[1])

\* focuser.Move(n): to n of an absolute focuser, by n of a relative one.
Move(n) == IF capability["focuser.Absolute"] THEN n ELSE focuser_Position + n

SetFilterOffsetFocuser ==
    /\ caller = "idle"
    /\ \E filter_index \in {None} \cup {Some(i) : i \in 0..(MaxFilters - 1)},
          filter_name \in {"None", "X"} \cup {filters[i] : i \in 1..Len(filters)} :
          LET r == set_filter_offset_focuser(filter_index, filter_name)
          IN /\ filter_wheel_Position' = r.Position
             /\ current_focus_offset' = r.offset
             /\ focuser_Position' = IF r.Move = << >> THEN focuser_Position
                                    ELSE Move(r.Move[1])
             /\ call' = [op |-> "set_filter_offset_focuser", result |-> r.result,
                         filter_index |-> filter_index, filter_name |-> filter_name,
                         Move |-> r.Move,
                         before |-> [Position |-> filter_wheel_Position,
                                     offset |-> current_focus_offset]]
    /\ UNCHANGED <<present, safety_monitor, switch, connected, capability,
                   threadVars, observingVars, coolerVars, siteVars,
                   last_camera_shutter_status>>

\* With or without a filter wheel and a focuser, connected or not, the
\* focuser absolute or relative.
InitFocus ==
    /\ present \in {p \in [OptionalKinds -> BOOLEAN] :
                       \A k \in OptionalKinds \ {"filter_wheel", "focuser"} : p[k]}
    /\ safety_monitor = [none |-> TRUE, n |-> 0]
    /\ switch = [none |-> TRUE, n |-> 0]
    /\ connected \in {c \in [AllDevices -> BOOLEAN] :
                         \A d \in AllDevices \ {<<"filter_wheel", 0>>, <<"focuser", 0>>} : c[d]}
    /\ capability \in {c \in [AllQueries \cup FocuserQueries -> BOOLEAN] :
                          \A q \in AllQueries : c[q]}
    /\ call = NoCall
    /\ InitThreads

NextFocus == SetFilterOffsetFocuser

SpecFocus == InitFocus /\ [][NextFocus]_vars

\* The configured focus offset of the filter at a Python index.
ConfiguredOffset(i) == i * OffsetStep

\* C39: after a set_filter_offset_focuser call that did not raise, the
\* focuser stands away from where it started by the configured offset of
\* the filter the wheel is at.
C39_NetDisplacementIsFilterOffset ==
    (call.op = "set_filter_offset_focuser" /\ call.result \in {"True", "None"})
       => focuser_Position - FocuserStart = ConfiguredOffset(filter_wheel_Position)

\* C40: a set_filter_offset_focuser call that raised left the filter wheel
\* where it was and current_focus_offset as it was, and moved no focuser.
C40_FailureLeavesStateAlone ==
    (call.op = "set_filter_offset_focuser"
     /\ call.result \in {"ObservatoryException", "KeyError", "TypeError"})
       => /\ filter_wheel_Position = call.before.Position
          /\ current_focus_offset = call.before.offset
          /\ call.Move = << >>

(***************************************************************************)
(* slew_to_coordinates in the foreground while a safety-monitor worker     *)
(* runs shutdown.  Nothing serialises the two: the slew is modelled in     *)
(* steps, and the worker's poll may fall between any two of them.          *)
(***************************************************************************)
\* The shutdowns a worker called as its on_fail that returned.
ShutdownsCompleted ==
    Cardinality({w \in 1..Len(workers) :
                    /\ workers[w].on_fail = "shutdown"
                    /\ workers[w].calls >= 1
                    /\ workers[w].exit # "callback error"})

\* The foreground enters slew_to_coordinates.
SlewEnter ==
    /\ caller = "idle"
    /\ \E alt \in 0..1, wait_for_slew \in BOOLEAN, track \in BOOLEAN :
          call' = [op |-> "slew_to_coordinates", result |-> "in flight",
                   trace |-> << >>, after |-> << >>,
                   alt |-> alt, wait_for_slew |-> wait_for_slew, track |-> track,
                   completed |-> ShutdownsCompleted, overtaken |-> FALSE]
    /\ caller' = "slew_prologue"
    /\ UNCHANGED <<present, safety_monitor, switch, connected, capability,
                   safety_monitor_event, safety_monitor_thread, workers, last_poll>>
    /\ UNCHANGED <<observingVars, coolerVars, otherVars>>

\* The call with the commands of one more step, which count as issued after
\* a shutdown when one completed since the call was entered.
SlewIssue(commands, result) ==
    LET late == ShutdownsCompleted > call.completed
    IN [call EXCEPT !.trace = @ \o commands,
                    !.after = IF late THEN @ \o commands ELSE @,
                    !.overtaken = late,
                    !.result = result]

\* The next step of the call in flight: from the entry to the altitude
\* test, then Unpark and the slew primitive, then the wait and tracking.
SlewStep ==
    /\ caller \in {"slew_prologue", "slew_mount", "slew_wait"}
    /\ IF caller = "slew_prologue"
       THEN LET p == slew_prologue(connected[<<"telescope", 0>>], call.alt, 0)
            IN IF p = "go"
               THEN /\ call' = SlewIssue(<< >>, "in flight")
                    /\ caller' = "slew_mount"
               ELSE /\ call' = SlewIssue(<< >>, p)
                    /\ caller' = "idle"
       ELSE IF caller = "slew_mount"
       THEN LET m == slew_mount(FALSE)
            IN IF m.result = "go"
               THEN /\ call' = SlewIssue(m.trace, "in flight")
                    /\ caller' = "slew_wait"
               ELSE /\ call' = SlewIssue(m.trace, m.result)
                    /\ caller' = "idle"
       ELSE LET w == slew_wait(call.wait_for_slew)
            IN /\ call' = IF w = "go" THEN SlewIssue(slew_tracking(call.track), "True")
                          ELSE SlewIssue(<< >>, w)
               /\ caller' = "idle"
    /\ UNCHANGED <<present, safety_monitor, switch, connected, capability,
                   safety_monitor_event, safety_monitor_thread, workers, last_poll>>
    /\ UNCHANGED <<observingVars, coolerVars, otherVars>>

\* One safety monitor and every device connected; the mount can park, slew
\* and track.
InitSlewInFlight ==
    /\ present = [k \in OptionalKinds |-> TRUE]
    /\ safety_monitor = [none |-> FALSE, n |-> 1]
    /\ switch = [none |-> TRUE, n |-> 0]
    /\ connected = [d \in AllDevices |-> TRUE]
    /\ capability = [q \in AllQueries |-> TRUE]
    /\ call = NoCall
    /\ InitThreads

NextSlewInFlight ==
    \/ StartSafetyMonitorThread
    \/ \E w \in 1..Len(workers) : WorkerTest(w)
    \/ \E w \in 1..Len(workers) : WorkerPoll(w)
    \/ \E w \in 1..Len(workers) : WorkerStop(w)
    \/ \E w \in 1..Len(workers) : WorkerJoin(w)
    \/ SlewEnter
    \/ SlewStep

SpecSlewInFlight == InitSlewInFlight /\ [][NextSlewInFlight]_vars

Init ==
    /\ present \in [OptionalKinds -> BOOLEAN]
    /\ safety_monitor \in DeviceLists(MaxMonitors)
    /\ switch \in DeviceLists(MaxSwitches)
    /\ connected = [d \in AllDevices |-> FALSE]
    /\ capability \in [AllQueries \cup CameraQueries \cup DomeQueries
                         \cup FocuserQueries -> BOOLEAN]
    /\ call = NoCall
    /\ InitThreads

Next ==
    \/ NextConnect \/ NextShutdown \/ NextSlew \/ NextSafety
    \/ NextLoops \/ NextRecenter \/ NextCooler \/ NextFlats \/ NextSlewAll
    \/ NextFlatsPosition \/ NextSetters \/ NextBackground \/ NextFrames
    \/ NextFocus \/ NextSlewInFlight

Spec == Init /\ [][Next]_vars

====
